---- MODULE Spec2Model ----
EXTENDS Integers, Sequences, FiniteSets, TLC

(***************************************************************************)
(* Bookstore backend: users, bearer/refresh tokens, books, comments and    *)
(* ratings.  The relational database is a set of rows per table with its   *)
(* uniqueness constraints checked at commit; the key-value cache that      *)
(* holds refresh tokens is a map with an expiry time per entry.            *)
(***************************************************************************)

VARIABLES
    users,          \* table users: set of rows
    nextUserId,     \* auto-increment of users.id
    books,          \* table books: ids of the rows (whole rows in SpecBook)
    ratings,        \* table ratings: set of rows
    nextRatingId,   \* auto-increment of ratings.id
    comments,       \* table comments: set of rows
    nextCommentId,  \* auto-increment of comments.id
    cache,          \* key-value cache: user id -> entry under user:{id}:refresh
    clock,          \* current time in seconds
    ticks,          \* number of clock advances so far
    accessIssued,   \* access tokens handed to clients so far
    lastRefresh,    \* per user: refresh token of the latest issuance
    olderRefresh,   \* per user: refresh tokens of all issuances before the latest
    inflight,       \* per worker: the rating request between its reads and its commit
    resp            \* the response of the latest completed request

vars == <<users, nextUserId, books, ratings, nextRatingId, comments,
          nextCommentId, cache, clock, ticks, accessIssued, lastRefresh,
          olderRefresh, inflight, resp>>

dbVars == <<users, nextUserId, books, ratings, nextRatingId, comments, nextCommentId>>
tokenVars == <<cache, accessIssued, lastRefresh, olderRefresh>>
timeVars == <<clock, ticks>>

\* ------------------------------------------------------------------ bounds
MaxTicks == 1
MaxIssued == 2
MaxUserId == 3
MaxRatingId == 2
MaxCommentId == 2
MaxExcess == 2      \* requests of one window counted beyond the limit

UserIds == 1..MaxUserId
BookIds == {1, 2}
Procs == {"w1", "w2"}

\* --------------------------------------------------------------- constants
ACCESS_TOKEN_EXPIRE_MINUTES == 30
AccessTTL == ACCESS_TOKEN_EXPIRE_MINUTES * 60
RefreshTTL == 60 * 60 * 24 * 7
RateLimit == 60
RateWindow == 60
TickSteps == {1, AccessTTL, RefreshTTL}

Emails == {"admin@test.com", "user1@test.com", "new@test.com"}
Passwords == {"password123", "wrong"}
Names == {"Admin", "User1", "New"}
Roles == {"USER", "ADMIN"}
Statuses == {"ACTIVE", "INACTIVE"}
\* Scores sent with a create and with an update: one below the range, one
\* above it, and the lowest (create) or highest (update) score in the range.
CreateScores == {0, 1, 6}
UpdateScores == {0, 5, 6}
NoSub == 0

\* ---------------------------------------------------------------- helpers
NoToken == [kind |-> "none"]
NoHeader == [kind |-> "no_header"]
Garbage == [kind |-> "garbage"]
NoSubToken == [kind |-> "jwt", sub |-> NoSub, role |-> "USER", exp |-> 2 * RefreshTTL * (MaxTicks + 1)]
NoEntry == [val |-> NoToken, at |-> 0]
NoInfo == [kind |-> "none"]
Idle == [op |-> "idle"]

Response(op, status, code, req, out) ==
    [op |-> op, status |-> status, code |-> code, req |-> req, out |-> out]

hash_password(password) == <<"bcrypt", password>>
\* Mutant: every password is taken for the right one.
verify_password_Any(plain_password, hashed_password) == TRUE

verify_password(plain_password, hashed_password) ==
    hashed_password = hash_password(plain_password)

UserById(id) == {u \in users : u.id = id}
UserByEmail(email) == {u \in users : u.email = email}

\* ------------------------------------------------------------------ tokens
create_access_token(sub, role) ==
    [kind |-> "jwt", sub |-> sub, role |-> role, exp |-> clock + AccessTTL]

create_refresh_token(sub, role) ==
    [kind |-> "jwt", sub |-> sub, role |-> role, exp |-> clock + RefreshTTL]

\* jwt.decode: signature first, then the exp claim against the clock.
jwt_decode(token) ==
    IF token.kind # "jwt" THEN [err |-> "JWTError"]
    ELSE IF token.exp < clock THEN [err |-> "ExpiredSignatureError"]
    ELSE [err |-> "ok", sub |-> token.sub, role |-> token.role]

\* ------------------------------------------------------------------- cache
CacheGet(id) ==
    IF cache[id] # NoEntry /\ clock < cache[id].at THEN cache[id].val ELSE NoToken
CacheSet(id, val, ex) == [cache EXCEPT ![id] = [val |-> val, at |-> clock + ex]]
CacheDelete(id) == [cache EXCEPT ![id] = NoEntry]

RefreshIssued == UNION {{lastRefresh[u]} \cup olderRefresh[u] : u \in UserIds} \ {NoToken}
\* What a client can put in a request: any token the server ever handed out,
\* a string that is no token, or a signed token that carries no subject.
Presentable == accessIssued \cup RefreshIssued \cup {Garbage, NoSubToken}
\* What arrives in the Authorization header of a protected request: nothing
\* usable, or the access token of some earlier login or refresh.
Credentials == accessIssued \cup {Garbage, NoSubToken, NoHeader}

IssueRefresh(id, token) ==
    /\ lastRefresh' = [lastRefresh EXCEPT ![id] = token]
    /\ olderRefresh' = [olderRefresh EXCEPT ![id] = @ \cup ({lastRefresh[id]} \ {NoToken})]

\* -------------------------------------------------------------------- Init
SeedUsers ==
    { [id |-> 1, email |-> "admin@test.com", hashed_password |-> hash_password("password123"),
       name |-> "Admin", role |-> "ADMIN", status |-> "ACTIVE"],
      [id |-> 2, email |-> "user1@test.com", hashed_password |-> hash_password("password123"),
       name |-> "User1", role |-> "USER", status |-> "ACTIVE"] }

Init ==
    /\ users = SeedUsers
    /\ nextUserId = 3
    /\ books = {1}
    /\ ratings = {}
    /\ nextRatingId = 1
    /\ comments = {}
    /\ nextCommentId = 1
    /\ cache = [id \in UserIds |-> NoEntry]
    /\ clock = 0
    /\ ticks = 0
    /\ accessIssued = {}
    /\ lastRefresh = [id \in UserIds |-> NoToken]
    /\ olderRefresh = [id \in UserIds |-> {}]
    /\ inflight = [p \in Procs |-> Idle]
    /\ resp = Response("init", 0, "NONE", NoInfo, NoInfo)

\* ------------------------------------------------------------------- clock
Tick(d) ==
    /\ ticks < MaxTicks
    /\ clock' = clock + d
    /\ ticks' = ticks + 1
    /\ UNCHANGED <<dbVars, tokenVars, inflight, resp>>

\* -------------------------------------------------------------------- auth
login_user(email, password) ==
    LET found == UserByEmail(email)
        req == [email |-> email, password |-> password]
    IN
    IF found = {} \/ (\A u \in found : ~verify_password(password, u.hashed_password))
    THEN /\ resp' = Response("login", 401, "UNAUTHORIZED", req, NoInfo)
         /\ UNCHANGED <<dbVars, tokenVars, timeVars, inflight>>
    ELSE LET user == CHOOSE u \in found : TRUE IN
         IF user.status # "ACTIVE"
         THEN /\ resp' = Response("login", 403, "FORBIDDEN", req, NoInfo)
              /\ UNCHANGED <<dbVars, tokenVars, timeVars, inflight>>
         ELSE LET access == create_access_token(user.id, user.role)
                  refresh == create_refresh_token(user.id, user.role)
              IN /\ Cardinality(accessIssued \cup {access}) <= MaxIssued
                 /\ cache' = CacheSet(user.id, refresh, RefreshTTL)
                 /\ accessIssued' = accessIssued \cup {access}
                 /\ IssueRefresh(user.id, refresh)
                 /\ resp' = Response("login", 200, "OK", req,
                                     [access_token |-> access, refresh_token |-> refresh,
                                      role |-> user.role])
                 /\ UNCHANGED <<dbVars, timeVars, inflight>>

\* Mutant: the cached value is only tested for presence.
RefreshMismatch_PresenceOnly(stored, refresh_token) ==
    stored = NoToken

\* The comparison of the presented token with the cached value.
RefreshMismatch(stored, refresh_token) ==
    stored = NoToken \/ stored # refresh_token

refresh_access_token(refresh_token) ==
    LET payload == jwt_decode(refresh_token)
        req == [refresh_token |-> refresh_token]
    IN
    IF payload.err # "ok"
    THEN /\ resp' = Response("refresh", 401, "TOKEN_EXPIRED", req, NoInfo)
         /\ UNCHANGED <<dbVars, tokenVars, timeVars, inflight>>
    ELSE IF payload.sub = NoSub
    THEN /\ resp' = Response("refresh", 401, "UNAUTHORIZED", req, NoInfo)
         /\ UNCHANGED <<dbVars, tokenVars, timeVars, inflight>>
    ELSE IF RefreshMismatch(CacheGet(payload.sub), refresh_token)
    THEN /\ resp' = Response("refresh", 401, "TOKEN_EXPIRED", req, NoInfo)
         /\ UNCHANGED <<dbVars, tokenVars, timeVars, inflight>>
    ELSE LET new_access == create_access_token(payload.sub, payload.role)
             new_refresh == create_refresh_token(payload.sub, payload.role)
         IN /\ Cardinality(accessIssued \cup {new_access}) <= MaxIssued
            /\ cache' = CacheSet(payload.sub, new_refresh, RefreshTTL)
            /\ accessIssued' = accessIssued \cup {new_access}
            /\ IssueRefresh(payload.sub, new_refresh)
            /\ resp' = Response("refresh", 200, "OK", req,
                                [access_token |-> new_access, refresh_token |-> new_refresh,
                                 role |-> payload.role])
            /\ UNCHANGED <<dbVars, timeVars, inflight>>

\* ------------------------------------------------------------ current user
\* Mutant: the status of the loaded row is not looked at.
get_current_user_NoStatus(credentials) ==
    IF credentials = NoHeader
    THEN [ok |-> FALSE, status |-> 401, code |-> "UNAUTHORIZED", message |-> "Login required"]
    ELSE LET payload == jwt_decode(credentials) IN
    IF payload.err # "ok" \/ payload.sub = NoSub
    THEN [ok |-> FALSE, status |-> 401, code |-> "UNAUTHORIZED", message |-> "Token invalid"]
    ELSE IF UserById(payload.sub) = {}
    THEN [ok |-> FALSE, status |-> 404, code |-> "RESOURCE_NOT_FOUND", message |-> "User not found"]
    ELSE LET user == CHOOSE u \in UserById(payload.sub) : TRUE IN
         [ok |-> TRUE, status |-> 200, code |-> "OK", id |-> user.id, role |-> user.role]

\* Mutant: the role is the one the token carries.
get_current_user_TokenRole(credentials) ==
    IF credentials = NoHeader
    THEN [ok |-> FALSE, status |-> 401, code |-> "UNAUTHORIZED", message |-> "Login required"]
    ELSE LET payload == jwt_decode(credentials) IN
    IF payload.err # "ok" \/ payload.sub = NoSub
    THEN [ok |-> FALSE, status |-> 401, code |-> "UNAUTHORIZED", message |-> "Token invalid"]
    ELSE IF UserById(payload.sub) = {}
    THEN [ok |-> FALSE, status |-> 404, code |-> "RESOURCE_NOT_FOUND", message |-> "User not found"]
    ELSE LET user == CHOOSE u \in UserById(payload.sub) : TRUE IN
    IF user.status # "ACTIVE"
    THEN [ok |-> FALSE, status |-> 403, code |-> "FORBIDDEN", message |-> "User inactive"]
    ELSE [ok |-> TRUE, status |-> 200, code |-> "OK", id |-> user.id, role |-> payload.role]

get_current_user(credentials) ==
    IF credentials = NoHeader
    THEN [ok |-> FALSE, status |-> 401, code |-> "UNAUTHORIZED", message |-> "Login required"]
    ELSE LET payload == jwt_decode(credentials) IN
    IF payload.err = "ExpiredSignatureError"
    THEN [ok |-> FALSE, status |-> 401, code |-> "UNAUTHORIZED", message |-> "Token expired"]
    ELSE IF payload.err = "JWTError"
    THEN [ok |-> FALSE, status |-> 401, code |-> "UNAUTHORIZED", message |-> "Token invalid"]
    ELSE IF payload.sub = NoSub
    THEN [ok |-> FALSE, status |-> 401, code |-> "UNAUTHORIZED", message |-> "Invalid token payload"]
    ELSE IF UserById(payload.sub) = {}
    THEN [ok |-> FALSE, status |-> 404, code |-> "RESOURCE_NOT_FOUND", message |-> "User not found"]
    ELSE LET user == CHOOSE u \in UserById(payload.sub) : TRUE IN
    IF user.status # "ACTIVE"
    THEN [ok |-> FALSE, status |-> 403, code |-> "FORBIDDEN", message |-> "User inactive"]
    ELSE [ok |-> TRUE, status |-> 200, code |-> "OK", id |-> user.id, role |-> user.role]

\* Mutant: every authenticated caller is let through.
admin_required_Open(user) == user

admin_required(user) ==
    IF ~user.ok THEN user
    ELSE IF user.role # "ADMIN"
    THEN [ok |-> FALSE, status |-> 403, code |-> "FORBIDDEN", message |-> "Admin only API"]
    ELSE user

\* A request stopped by a dependency: the handler body does not run.
Rejected(op, auth, req) ==
    /\ resp' = Response(op, auth.status, auth.code, req, [message |-> auth.message])
    /\ UNCHANGED <<dbVars, tokenVars, timeVars, inflight>>

logout_user(user_id, req) ==
    LET deleted == CacheGet(user_id) # NoToken IN
    /\ cache' = CacheDelete(user_id)
    /\ resp' = Response("logout", 200, "OK", req,
                        [message |-> IF deleted THEN "Logged out successfully"
                                     ELSE "Already logged out or token not found"])
    /\ UNCHANGED <<dbVars, accessIssued, lastRefresh, olderRefresh, timeVars, inflight>>

logout(credentials) ==
    LET current_user == get_current_user(credentials)
        req == NoInfo
    IN IF ~current_user.ok THEN Rejected("logout", current_user, req)
       ELSE logout_user(current_user.id, req)

\* ------------------------------------------------------------------- users
contentVars == <<books, ratings, nextRatingId, comments, nextCommentId>>

\* FOREIGN KEY users.id <- comments.user_id, ratings.user_id (both NOT NULL).
UserReferenced(id) ==
    (\E c \in comments : c.user_id = id) \/ (\E r \in ratings : r.user_id = id)

\* UNIQUE(users.email), checked by the database when the INSERT is flushed.
\* Mutant: the email column has no uniqueness constraint.
EmailConflict_Off(email) == FALSE

\* Column(String(255), unique=True), checked by the database at INSERT.
EmailConflict(email) == UserByEmail(email) # {}

\* Mutant: a commit that fails for another reason than the email leaves the
\* row behind.
create_user_RowKept(user_data, db_fault) ==
    LET user == [id |-> nextUserId, email |-> user_data.email,
                 hashed_password |-> hash_password(user_data.password),
                 name |-> user_data.name, role |-> "USER", status |-> "ACTIVE"]
        req == [user_data |-> user_data, db_fault |-> db_fault]
    IN
    /\ nextUserId <= MaxUserId
    /\ users' = IF EmailConflict(user_data.email) THEN users ELSE users \cup {user}
    /\ nextUserId' = IF EmailConflict(user_data.email) THEN nextUserId ELSE nextUserId + 1
    /\ resp' = IF EmailConflict(user_data.email) \/ db_fault
               THEN Response("register_user", 409, "DUPLICATE_RESOURCE", req, NoInfo)
               ELSE Response("register_user", 201, "CREATED", req, user)
    /\ UNCHANGED <<contentVars, tokenVars, timeVars, inflight>>

create_user(user_data, db_fault) ==
    LET user == [id |-> nextUserId, email |-> user_data.email,
                 hashed_password |-> hash_password(user_data.password),
                 name |-> user_data.name, role |-> "USER", status |-> "ACTIVE"]
        req == [user_data |-> user_data, db_fault |-> db_fault]
    IN
    IF EmailConflict(user_data.email) \/ db_fault
    THEN /\ resp' = Response("register_user", 409, "DUPLICATE_RESOURCE", req, NoInfo)
         /\ UNCHANGED <<dbVars, tokenVars, timeVars, inflight>>
    ELSE /\ nextUserId <= MaxUserId
         /\ users' = users \cup {user}
         /\ nextUserId' = nextUserId + 1
         /\ resp' = Response("register_user", 201, "CREATED", req, user)
         /\ UNCHANGED <<contentVars, tokenVars, timeVars, inflight>>

register_user(user_data, db_fault) == create_user(user_data, db_fault)

get_me(credentials) ==
    LET user == get_current_user(credentials)
        req == NoInfo
    IN
    IF ~user.ok THEN Rejected("get_me", user, req)
    ELSE /\ resp' = IF UserById(user.id) = {}
                    THEN Response("get_me", 404, "USER_NOT_FOUND", req, NoInfo)
                    ELSE Response("get_me", 200, "OK", req,
                                  [caller |-> [id |-> user.id, role |-> user.role],
                                   row |-> CHOOSE u \in UserById(user.id) : TRUE])
         /\ UNCHANGED <<dbVars, tokenVars, timeVars, inflight>>

\* Mutant: the update payload carries a role, and it is applied.
update_me_WithRole(credentials, name) ==
    LET user == get_current_user(credentials)
        req == [name |-> name]
    IN
    IF ~user.ok THEN Rejected("update_me", user, req)
    ELSE IF UserById(user.id) = {}
    THEN /\ resp' = Response("update_me", 404, "USER_NOT_FOUND", req, NoInfo)
         /\ UNCHANGED <<dbVars, tokenVars, timeVars, inflight>>
    ELSE LET row == CHOOSE u \in UserById(user.id) : TRUE
             updated == [row EXCEPT !.name = name, !.role = "ADMIN"]
         IN /\ users' = (users \ {row}) \cup {updated}
            /\ resp' = Response("update_me", 200, "OK", req, updated)
            /\ UNCHANGED <<nextUserId, contentVars, tokenVars, timeVars, inflight>>

update_me(credentials, name) ==
    LET user == get_current_user(credentials)
        req == [name |-> name]
    IN
    IF ~user.ok THEN Rejected("update_me", user, req)
    ELSE IF UserById(user.id) = {}
    THEN /\ resp' = Response("update_me", 404, "USER_NOT_FOUND", req, NoInfo)
         /\ UNCHANGED <<dbVars, tokenVars, timeVars, inflight>>
    ELSE LET row == CHOOSE u \in UserById(user.id) : TRUE
             updated == [row EXCEPT !.name = name]
         IN /\ users' = (users \ {row}) \cup {updated}
            /\ resp' = Response("update_me", 200, "OK", req, updated)
            /\ UNCHANGED <<nextUserId, contentVars, tokenVars, timeVars, inflight>>

delete_me(credentials) ==
    LET user == get_current_user(credentials)
        req == NoInfo
    IN
    IF ~user.ok THEN Rejected("delete_me", user, req)
    ELSE IF UserById(user.id) = {}
    THEN /\ resp' = Response("delete_me", 404, "USER_NOT_FOUND", req, NoInfo)
         /\ UNCHANGED <<dbVars, tokenVars, timeVars, inflight>>
    ELSE IF UserReferenced(user.id)
    THEN /\ resp' = Response("delete_me", 500, "INTERNAL_SERVER_ERROR", req, NoInfo)
         /\ UNCHANGED <<dbVars, tokenVars, timeVars, inflight>>
    ELSE /\ users' = users \ UserById(user.id)
         /\ resp' = Response("delete_me", 200, "OK", req, [message |-> "User deleted"])
         /\ UNCHANGED <<nextUserId, contentVars, tokenVars, timeVars, inflight>>

\* ------------------------------------------------------------------- admin
list_users(credentials) ==
    LET user == admin_required(get_current_user(credentials))
        req == NoInfo
    IN
    IF ~user.ok THEN Rejected("list_users", user, req)
    ELSE /\ resp' = Response("list_users", 200, "OK", req, [items |-> users])
         /\ UNCHANGED <<dbVars, tokenVars, timeVars, inflight>>

get_admin_dashboard_stats(req) ==
    IF Cardinality(books) = 0 /\ Cardinality(users) = 0
       /\ Cardinality(comments) = 0 /\ Cardinality(ratings) = 0
    THEN Response("admin_stats", 404, "RESOURCE_NOT_FOUND", req, NoInfo)
    ELSE Response("admin_stats", 200, "OK", req,
                  [books |-> Cardinality(books), users |-> Cardinality(users),
                   comments |-> Cardinality(comments), ratings |-> Cardinality(ratings)])

admin_stats(credentials) ==
    LET user == admin_required(get_current_user(credentials))
        req == NoInfo
    IN
    IF ~user.ok THEN Rejected("admin_stats", user, req)
    ELSE /\ resp' = get_admin_dashboard_stats(req)
         /\ UNCHANGED <<dbVars, tokenVars, timeVars, inflight>>

update_user_status(user_id, status, req) ==
    IF UserById(user_id) = {}
    THEN /\ resp' = Response("change_user_status", 404, "USER_NOT_FOUND", req, NoInfo)
         /\ UNCHANGED <<dbVars, tokenVars, timeVars, inflight>>
    ELSE LET row == CHOOSE u \in UserById(user_id) : TRUE IN
         /\ users' = (users \ {row}) \cup {[row EXCEPT !.status = status]}
         /\ resp' = Response("change_user_status", 200, "OK", req,
                             [user_id |-> user_id, status |-> status])
         /\ UNCHANGED <<nextUserId, contentVars, tokenVars, timeVars, inflight>>

change_user_status(credentials, user_id, status) ==
    LET user == admin_required(get_current_user(credentials))
        req == [user_id |-> user_id, status |-> status]
    IN
    IF ~user.ok THEN Rejected("change_user_status", user, req)
    ELSE IF status \notin {"ACTIVE", "INACTIVE"}
    THEN /\ resp' = Response("change_user_status", 400, "BAD_REQUEST", req, NoInfo)
         /\ UNCHANGED <<dbVars, tokenVars, timeVars, inflight>>
    ELSE update_user_status(user_id, status, req)

update_user_role(user_id, role, req) ==
    IF UserById(user_id) = {}
    THEN /\ resp' = Response("change_user_role", 404, "USER_NOT_FOUND", req, NoInfo)
         /\ UNCHANGED <<dbVars, tokenVars, timeVars, inflight>>
    ELSE LET row == CHOOSE u \in UserById(user_id) : TRUE IN
         /\ users' = (users \ {row}) \cup {[row EXCEPT !.role = role]}
         /\ resp' = Response("change_user_role", 200, "OK", req,
                             [user_id |-> user_id, role |-> role])
         /\ UNCHANGED <<nextUserId, contentVars, tokenVars, timeVars, inflight>>

\* Mutant: the role is written without being compared with the enumeration.
change_user_role_Unchecked(credentials, user_id, role) ==
    LET user == admin_required(get_current_user(credentials))
        req == [user_id |-> user_id, role |-> role]
    IN
    IF ~user.ok THEN Rejected("change_user_role", user, req)
    ELSE update_user_role(user_id, role, req)

change_user_role(credentials, user_id, role) ==
    LET user == admin_required(get_current_user(credentials))
        req == [user_id |-> user_id, role |-> role]
    IN
    IF ~user.ok THEN Rejected("change_user_role", user, req)
    ELSE IF role \notin {"USER", "ADMIN"}
    THEN /\ resp' = Response("change_user_role", 400, "BAD_REQUEST", req, NoInfo)
         /\ UNCHANGED <<dbVars, tokenVars, timeVars, inflight>>
    ELSE update_user_role(user_id, role, req)

\* FOREIGN KEY books.id <- comments.book_id, ratings.book_id (both NOT NULL).
BookReferenced(book_id) ==
    (\E c \in comments : c.book_id = book_id) \/ (\E r \in ratings : r.book_id = book_id)

delete_book(book_id, req) ==
    IF book_id \notin books
    THEN /\ resp' = Response("delete_book", 404, "RESOURCE_NOT_FOUND", req, NoInfo)
         /\ UNCHANGED <<dbVars, tokenVars, timeVars, inflight>>
    ELSE IF BookReferenced(book_id)
    THEN /\ resp' = Response("delete_book", 500, "INTERNAL_SERVER_ERROR", req, NoInfo)
         /\ UNCHANGED <<dbVars, tokenVars, timeVars, inflight>>
    ELSE /\ books' = books \ {book_id}
         /\ resp' = Response("delete_book", 204, "NO_CONTENT", req, NoInfo)
         /\ UNCHANGED <<users, nextUserId, ratings, nextRatingId, comments, nextCommentId,
                        tokenVars, timeVars, inflight>>

delete_admin_book(credentials, book_id) ==
    LET user == admin_required(get_current_user(credentials))
        req == [book_id |-> book_id]
    IN
    IF ~user.ok THEN Rejected("delete_book", user, req)
    ELSE delete_book(book_id, req)

\* ----------------------------------------------------------------- ratings
\* A rating request runs in two steps: the handler's reads and checks, then
\* the commit of its transaction.  Between the two, other requests may commit.
\* The response records the operation and its outcome; the stored row is read
\* from the table.
Busy(op) == {q \in Procs : inflight[q].op = op}

\* Mutant: the existence check finds nothing.
RatingsOf_Blind(user_id, book_id) == {}

RatingsOf(user_id, book_id) ==
    {r \in ratings : r.user_id = user_id /\ r.book_id = book_id}

\* Mutant: the upper end of the range is not tested.
ScoreOutOfRange_NoUpper(score) == score < 1

ScoreOutOfRange(score) == score < 1 \/ score > 5

\* Mutant: the table has no uniqueness constraint.
UniqueUserBookViolated_Off(user_id, book_id) == FALSE

\* UniqueConstraint('user_id', 'book_id'), checked by the database at INSERT.
UniqueUserBookViolated(user_id, book_id) ==
    \E r \in ratings : r.user_id = user_id /\ r.book_id = book_id

\* ForeignKey("users.id"), ForeignKey("books.id"), checked at INSERT.
RatingForeignKeysViolated(user_id, book_id) ==
    UserById(user_id) = {} \/ book_id \notin books

Answer(r) == /\ resp' = r
             /\ UNCHANGED <<dbVars, tokenVars, timeVars, inflight>>

create_rating(p, user_id, book_id, score) ==
    LET req == NoInfo IN
    IF book_id \notin books
    THEN Answer(Response("create_rating", 404, "RESOURCE_NOT_FOUND", req, NoInfo))
    ELSE IF RatingsOf(user_id, book_id) # {}
    THEN Answer(Response("create_rating", 409, "STATE_CONFLICT", req, NoInfo))
    ELSE IF ScoreOutOfRange(score)
    THEN Answer(Response("create_rating", 422, "VALIDATION_FAILED", req, NoInfo))
    ELSE /\ nextRatingId + Cardinality(Busy("create_rating")) <= MaxRatingId
         /\ inflight' = [inflight EXCEPT ![p] =
                            [op |-> "create_rating", user_id |-> user_id,
                             book_id |-> book_id, score |-> score]]
         /\ UNCHANGED <<dbVars, tokenVars, timeVars, resp>>

create_rating_api(p, credentials, book_id, score) ==
    LET user == get_current_user(credentials) IN
    /\ inflight[p] = Idle
    /\ IF ~user.ok
       THEN Rejected("create_rating", user, NoInfo)
       ELSE create_rating(p, user.id, book_id, score)

create_rating_commit(p) ==
    LET w == inflight[p]
        req == NoInfo
        rating == [id |-> nextRatingId, user_id |-> w.user_id,
                   book_id |-> w.book_id, score |-> w.score]
    IN
    /\ w.op = "create_rating"
    /\ inflight' = [inflight EXCEPT ![p] = Idle]
    /\ IF UniqueUserBookViolated(w.user_id, w.book_id)
          \/ RatingForeignKeysViolated(w.user_id, w.book_id)
       THEN /\ resp' = Response("create_rating", 500, "INTERNAL_SERVER_ERROR", req, NoInfo)
            /\ UNCHANGED <<dbVars, tokenVars, timeVars>>
       ELSE /\ ratings' = ratings \cup {rating}
            /\ nextRatingId' = nextRatingId + 1
            /\ resp' = Response("create_rating", 201, "CREATED", req, NoInfo)
            /\ UNCHANGED <<users, nextUserId, books, comments, nextCommentId,
                           tokenVars, timeVars>>

update_rating(p, user_id, book_id, score) ==
    LET req == NoInfo IN
    IF RatingsOf(user_id, book_id) = {}
    THEN Answer(Response("update_rating", 404, "RESOURCE_NOT_FOUND", req, NoInfo))
    ELSE IF ScoreOutOfRange(score)
    THEN Answer(Response("update_rating", 422, "VALIDATION_FAILED", req, NoInfo))
    ELSE \E rating \in RatingsOf(user_id, book_id) :
            /\ inflight' = [inflight EXCEPT ![p] =
                               [op |-> "update_rating", user_id |-> user_id,
                                book_id |-> book_id, score |-> score, id |-> rating.id]]
            /\ UNCHANGED <<dbVars, tokenVars, timeVars, resp>>

update_rating_api(p, credentials, book_id, score) ==
    LET user == get_current_user(credentials) IN
    /\ inflight[p] = Idle
    /\ IF ~user.ok
       THEN Rejected("update_rating", user, NoInfo)
       ELSE update_rating(p, user.id, book_id, score)

\* UPDATE ratings SET score WHERE id: a row deleted in the meantime makes the
\* flush fail (no row matched), which the handler turns into 500.
update_rating_commit(p) ==
    LET w == inflight[p]
        req == NoInfo
        rows == {r \in ratings : r.id = w.id}
    IN
    /\ w.op = "update_rating"
    /\ inflight' = [inflight EXCEPT ![p] = Idle]
    /\ IF rows = {}
       THEN /\ resp' = Response("update_rating", 500, "INTERNAL_SERVER_ERROR", req, NoInfo)
            /\ UNCHANGED <<dbVars, tokenVars, timeVars>>
       ELSE LET row == CHOOSE r \in rows : TRUE
                updated == [row EXCEPT !.score = w.score]
            IN /\ ratings' = (ratings \ {row}) \cup {updated}
               /\ resp' = Response("update_rating", 200, "OK", req, NoInfo)
               /\ UNCHANGED <<users, nextUserId, books, nextRatingId, comments,
                              nextCommentId, tokenVars, timeVars>>

delete_rating(p, user_id, book_id) ==
    LET req == NoInfo IN
    IF RatingsOf(user_id, book_id) = {}
    THEN Answer(Response("delete_rating", 404, "RESOURCE_NOT_FOUND", req, NoInfo))
    ELSE \E rating \in RatingsOf(user_id, book_id) :
            /\ inflight' = [inflight EXCEPT ![p] =
                               [op |-> "delete_rating", user_id |-> user_id,
                                book_id |-> book_id, id |-> rating.id]]
            /\ UNCHANGED <<dbVars, tokenVars, timeVars, resp>>

remove_rating(p, credentials, book_id) ==
    LET user == get_current_user(credentials) IN
    /\ inflight[p] = Idle
    /\ IF ~user.ok
       THEN Rejected("delete_rating", user, NoInfo)
       ELSE delete_rating(p, user.id, book_id)

\* DELETE FROM ratings WHERE id: a row already gone only draws a warning.
delete_rating_commit(p) ==
    LET w == inflight[p]
        req == NoInfo
    IN
    /\ w.op = "delete_rating"
    /\ inflight' = [inflight EXCEPT ![p] = Idle]
    /\ ratings' = {r \in ratings : r.id # w.id}
    /\ resp' = Response("delete_rating", 200, "OK", req, [message |-> "Rating deleted"])
    /\ UNCHANGED <<users, nextUserId, books, nextRatingId, comments, nextCommentId,
                   tokenVars, timeVars>>

\* ---------------------------------------------------------------- comments
\* A text is a sequence of characters; an optional text is a set holding at
\* most one text (CommentUpdate.content: Optional[str] = None).
IsSpace(ch) == ch = " "

RECURSIVE lstrip(_)
lstrip(text) ==
    IF text = <<>> THEN <<>>
    ELSE IF IsSpace(Head(text)) THEN lstrip(Tail(text)) ELSE text

RECURSIVE rstrip(_)
rstrip(text) ==
    IF text = <<>> THEN <<>>
    ELSE IF IsSpace(text[Len(text)]) THEN rstrip(SubSeq(text, 1, Len(text) - 1)) ELSE text

strip(text) == rstrip(lstrip(text))

CommentById(comment_id) == {c \in comments : c.id = comment_id}

create_comment(user_id, book_id, content) ==
    LET req == [book_id |-> book_id]
        comment == [id |-> nextCommentId, user_id |-> user_id, book_id |-> book_id,
                    content |-> content]
    IN
    IF book_id \notin books
    THEN Answer(Response("create_comment", 404, "RESOURCE_NOT_FOUND", req, NoInfo))
    ELSE /\ nextCommentId <= MaxCommentId
         /\ comments' = comments \cup {comment}
         /\ nextCommentId' = nextCommentId + 1
         /\ resp' = Response("create_comment", 201, "CREATED", req, NoInfo)
         /\ UNCHANGED <<users, nextUserId, books, ratings, nextRatingId, tokenVars,
                        timeVars, inflight>>

add_comment(credentials, book_id, content) ==
    LET user == get_current_user(credentials) IN
    IF ~user.ok THEN Rejected("create_comment", user, [book_id |-> book_id])
    ELSE create_comment(user["id"], book_id, content)

\* Mutant: the author of the comment is not compared with the caller.
NotAuthor_Anyone(comment, user_id) == FALSE

NotAuthor(comment, user_id) == comment.user_id # user_id

update_comment(comment_id, user_id, content) ==
    LET req == [comment_id |-> comment_id] IN
    IF CommentById(comment_id) = {}
    THEN Answer(Response("update_comment", 404, "RESOURCE_NOT_FOUND", req, NoInfo))
    ELSE LET comment == CHOOSE c \in CommentById(comment_id) : TRUE IN
    IF NotAuthor(comment, user_id)
    THEN Answer(Response("update_comment", 403, "FORBIDDEN", req, NoInfo))
    ELSE IF content = {}
    THEN Answer(Response("update_comment", 200, "OK", req, NoInfo))
    ELSE LET text == CHOOSE t \in content : TRUE IN
    IF Len(strip(text)) = 0
    THEN Answer(Response("update_comment", 422, "VALIDATION_FAILED", req, NoInfo))
    ELSE /\ comments' = (comments \ {comment}) \cup {[comment EXCEPT !.content = text]}
         /\ resp' = Response("update_comment", 200, "OK", req, NoInfo)
         /\ UNCHANGED <<users, nextUserId, books, ratings, nextRatingId, nextCommentId,
                        tokenVars, timeVars, inflight>>

edit_comment(credentials, comment_id, content) ==
    LET user == get_current_user(credentials) IN
    IF ~user.ok THEN Rejected("update_comment", user, [comment_id |-> comment_id])
    ELSE update_comment(comment_id, user["id"], content)

delete_comment(comment_id, user_id) ==
    LET req == [comment_id |-> comment_id] IN
    IF CommentById(comment_id) = {}
    THEN Answer(Response("delete_comment", 404, "RESOURCE_NOT_FOUND", req, NoInfo))
    ELSE LET comment == CHOOSE c \in CommentById(comment_id) : TRUE IN
    IF NotAuthor(comment, user_id)
    THEN Answer(Response("delete_comment", 403, "FORBIDDEN", req, NoInfo))
    ELSE /\ comments' = comments \ {comment}
         /\ resp' = Response("delete_comment", 200, "OK", req, [message |-> "deleted"])
         /\ UNCHANGED <<users, nextUserId, books, ratings, nextRatingId, nextCommentId,
                        tokenVars, timeVars, inflight>>

\* Mutant: a caller of role ADMIN deletes a comment as if its author.
remove_comment_AdminToo(credentials, comment_id) ==
    LET user == get_current_user(credentials) IN
    IF ~user.ok THEN Rejected("delete_comment", user, [comment_id |-> comment_id])
    ELSE IF user.role = "ADMIN" /\ CommentById(comment_id) # {}
    THEN delete_comment(comment_id, (CHOOSE c \in CommentById(comment_id) : TRUE).user_id)
    ELSE delete_comment(comment_id, user["id"])

remove_comment(credentials, comment_id) ==
    LET user == get_current_user(credentials) IN
    IF ~user.ok THEN Rejected("delete_comment", user, [comment_id |-> comment_id])
    ELSE delete_comment(comment_id, user["id"])

\* ------------------------------------------------------------------- lists
\* A sort parameter is the text "field,direction", kept as the two parts that
\* sort.split(",") yields.  The requests sort by the primary key, name a
\* column no table has, or carry no comma (one part).
SortColumns == {"id"}

Min(a, b) == IF a < b THEN a ELSE b
Max(a, b) == IF a > b THEN a ELSE b

\* ORDER BY id ASC over the ids of the selected rows.
RECURSIVE asc(_)
asc(ids) ==
    IF ids = {} THEN <<>>
    ELSE LET least == CHOOSE i \in ids : \A j \in ids : i <= j
         IN <<least>> \o asc(ids \ {least})

\* ORDER BY id DESC.
desc(ids) == LET up == asc(ids) IN [i \in 1..Len(up) |-> up[Len(up) + 1 - i]]

\* column.desc() if direction.upper() == "DESC" else column.asc()
order_by(ids, direction) == IF direction = "DESC" THEN desc(ids) ELSE asc(ids)

\* A query without ORDER BY returns the selected rows in an order the
\* database chooses.
Unordered(ids) ==
    {s \in [1..Cardinality(ids) -> ids] : \A i \in ids : \E k \in DOMAIN s : s[k] = i}

\* Mutant: LIMIT is not applied.
offset_limit_NoLimit(rows, offset, limit) ==
    [i \in 1..Max(0, Len(rows) - offset) |-> rows[offset + i]]

\* query.offset(offset).limit(limit).all() for offset >= 0 and limit >= 0.
offset_limit(rows, offset, limit) ==
    [i \in 1..Max(0, Min(limit, Len(rows) - offset)) |-> rows[offset + i]]

\* (total + size - 1) // size
total_pages(total, size) == (total + size - 1) \div size

\* text LIKE %keyword%
like(text, keyword) ==
    \E i \in 0..(Len(text) - Len(keyword)) : SubSeq(text, i + 1, i + Len(keyword)) = keyword

\* The answer that ends a list request: the page and size asked for, whether
\* the listing query reached the database, and the fields of the JSON body
\* that depend on the rows (the echoed sort and filters are left out).
Asked(page, size) == [page |-> page, size |-> size]

Refused(op, page, size, status, code, queried) ==
    Answer(Response(op, status, code, Asked(page, size), [queried |-> queried]))

Paged(op, page, size, rows, total) ==
    Answer(Response(op, 200, "OK", Asked(page, size),
                    [queried |-> TRUE, content |-> rows, totalElements |-> total,
                     totalPages |-> total_pages(total, size)]))

Items(op, page, size, rows, total) ==
    Answer(Response(op, 200, "OK", Asked(page, size),
                    [queried |-> TRUE, items |-> rows, total |-> total]))

\* ---- books
get_books_paginated(op, page, size, sort) ==
    IF Len(sort) # 2   \* the unpacking raises ValueError inside the try
    THEN Refused(op, page, size, 500, "INTERNAL_SERVER_ERROR", FALSE)
    ELSE IF sort[1] \notin SortColumns
    THEN Refused(op, page, size, 400, "INVALID_QUERY_PARAM", FALSE)
    ELSE LET total == Cardinality(books)
             rows == offset_limit(order_by(books, sort[2]), (page - 1) * size, size)
         IN Paged(op, page, size, rows, total)

\* Mutant: the size of a page has no upper bound.
SizeOutOfRange_NoUpper(size) == size < 1

\* size < 1 or size > 50
SizeOutOfRange(size) == size < 1 \/ size > 50

list_books(page, size, sort) ==
    IF page < 1 THEN Refused("list_books", page, size, 400, "INVALID_QUERY_PARAM", FALSE)
    ELSE IF SizeOutOfRange(size)
    THEN Refused("list_books", page, size, 400, "INVALID_QUERY_PARAM", FALSE)
    ELSE get_books_paginated("list_books", page, size, sort)

\* The catalogue rows carry no searchable text here: the request names
\* neither keyword nor category, and search_books selects every book.
search_books(op, page, size, sort) ==
    IF Len(sort) # 2   \* the unpacking raises ValueError inside the try
    THEN Refused(op, page, size, 500, "INTERNAL_SERVER_ERROR", FALSE)
    ELSE IF sort[1] \notin SortColumns
    THEN Refused(op, page, size, 400, "INVALID_QUERY_PARAM", FALSE)
    ELSE LET total == Cardinality(books)
             rows == offset_limit(order_by(books, sort[2]), (page - 1) * size, size)
         IN Paged(op, page, size, rows, total)

search_books_api(page, size, sort) ==
    IF page < 1 THEN Refused("search_books", page, size, 400, "INVALID_QUERY_PARAM", FALSE)
    ELSE IF SizeOutOfRange(size)
    THEN Refused("search_books", page, size, 400, "INVALID_QUERY_PARAM", FALSE)
    ELSE search_books("search_books", page, size, sort)

\* The request names neither min_price nor max_price.
filter_by_price(op, page, size, sort) ==
    IF Len(sort) # 2   \* the unpacking raises ValueError inside the try
    THEN Refused(op, page, size, 500, "INTERNAL_SERVER_ERROR", FALSE)
    ELSE IF sort[1] \notin SortColumns
    THEN Refused(op, page, size, 400, "INVALID_QUERY_PARAM", FALSE)
    ELSE LET total == Cardinality(books)
             rows == offset_limit(order_by(books, sort[2]), (page - 1) * size, size)
         IN Paged(op, page, size, rows, total)

filter_books_by_price(page, size, sort) ==
    IF page < 1 \/ size < 1 \/ size > 50
    THEN Refused("filter_price", page, size, 400, "INVALID_QUERY_PARAM", FALSE)
    ELSE filter_by_price("filter_price", page, size, sort)

\* ---- comments
\* Nothing checks page or size.  getattr on a column that does not exist and
\* the division by a size of zero raise exceptions no handler catches (500);
\* a negative OFFSET is an error in MySQL and row 0 in SQLite, so db_strict
\* says which database answers.
get_comments_paginated(op, book_id, page, size, sort, keyword, db_strict) ==
    IF Len(sort) # 2 \/ sort[1] \notin SortColumns
    THEN Refused(op, page, size, 500, "UNHANDLED", FALSE)
    ELSE LET selected == {c \in comments :
                             /\ c.book_id = book_id
                             /\ \A k \in keyword : Len(k) > 0 => like(c.content, k)}
             ordered == order_by({c.id : c \in selected}, sort[2])
             total == Cardinality(selected)
             offset == (page - 1) * size
         IN IF (offset < 0 \/ size < 0) /\ db_strict
            THEN Refused(op, page, size, 500, "UNHANDLED", TRUE)
            ELSE IF size = 0
            THEN Refused(op, page, size, 500, "UNHANDLED", TRUE)
            ELSE Paged(op, page, size,
                       offset_limit(ordered, Max(0, offset),
                                    IF size < 0 THEN Len(ordered) ELSE size),
                       total)

list_comments(book_id, page, size, sort, keyword, db_strict) ==
    get_comments_paginated("list_comments", book_id, page, size, sort, keyword, db_strict)

\* ---- ratings
\* The request names no keyword, minScore or maxScore.
get_book_ratings(op, book_id, page, size, sort) ==
    IF Len(sort) # 2 \/ sort[2] \notin {"ASC", "DESC"}
    THEN Refused(op, page, size, 422, "VALIDATION_FAILED", FALSE)
    ELSE IF sort[1] \notin SortColumns THEN Refused(op, page, size, 422, "VALIDATION_FAILED", FALSE)
    ELSE IF page < 1 THEN Refused(op, page, size, 422, "VALIDATION_FAILED", FALSE)
    ELSE IF size < 1 THEN Refused(op, page, size, 422, "VALIDATION_FAILED", FALSE)
    ELSE LET selected == {r \in ratings : r.book_id = book_id}
             ordered == order_by({r.id : r \in selected}, sort[2])
         IN Paged(op, page, size, offset_limit(ordered, (page - 1) * size, size),
                  Cardinality(selected))

list_ratings(book_id, page, size, sort) ==
    get_book_ratings("list_ratings", book_id, page, size, sort)

\* ---- admin: users
\* The request names neither role nor keyword.
get_users_admin(op, page, size, sort) ==
    IF page < 1 THEN Refused(op, page, size, 422, "VALIDATION_FAILED", FALSE)
    ELSE IF size < 1 THEN Refused(op, page, size, 422, "VALIDATION_FAILED", FALSE)
    ELSE IF Len(sort) # 2 \/ sort[1] \notin SortColumns
    THEN Refused(op, page, size, 400, "INVALID_QUERY_PARAM", FALSE)
    ELSE LET ordered == order_by({u.id : u \in users}, sort[2])
         IN Items(op, page, size, offset_limit(ordered, (page - 1) * size, size),
                  Cardinality(users))

list_users_admin(credentials, page, size, sort) ==
    LET user == admin_required(get_current_user(credentials)) IN
    IF ~user.ok THEN Rejected("list_users_admin", user, Asked(page, size))
    ELSE get_users_admin("list_users_admin", page, size, sort)

\* ---- admin: one user's comments (no ORDER BY)
get_comments_by_user(op, user_id, page, size) ==
    IF page < 1 \/ size < 1 THEN Refused(op, page, size, 422, "VALIDATION_FAILED", FALSE)
    ELSE LET selected == {c.id : c \in {row \in comments : row.user_id = user_id}}
         IN \E ordered \in Unordered(selected) :
               Paged(op, page, size, offset_limit(ordered, (page - 1) * size, size),
                     Cardinality(selected))

admin_get_user_comments(credentials, user_id, page, size) ==
    LET user == admin_required(get_current_user(credentials)) IN
    IF ~user.ok THEN Rejected("user_comments", user, Asked(page, size))
    ELSE get_comments_by_user("user_comments", user_id, page, size)

\* ---- admin: one user's ratings
get_ratings_by_user(op, user_id, page, size) ==
    IF page < 1 THEN Refused(op, page, size, 422, "VALIDATION_FAILED", FALSE)
    ELSE IF size < 1 THEN Refused(op, page, size, 422, "VALIDATION_FAILED", FALSE)
    ELSE IF UserById(user_id) = {} THEN Refused(op, page, size, 404, "USER_NOT_FOUND", TRUE)
    ELSE LET selected == {r \in ratings : r.user_id = user_id}
             ordered == desc({r.id : r \in selected})
         IN Items(op, page, size, offset_limit(ordered, (page - 1) * size, size),
                  Cardinality(selected))

admin_get_user_ratings(credentials, user_id, page, size) ==
    LET user == admin_required(get_current_user(credentials)) IN
    IF ~user.ok THEN Rejected("user_ratings", user, Asked(page, size))
    ELSE get_ratings_by_user("user_ratings", user_id, page, size)

\* ------------------------------------------------------ books: row update
\* Optional[T]: None is the empty set, a value v is {v}.
None == {}
Some(v) == {v}
Val(opt) == CHOOSE v \in opt : TRUE

\* Text that is split and joined is a sequence of characters.
RECURSIVE join(_)
join(list) ==
    IF list = <<>> THEN <<>>
    ELSE IF Len(list) = 1 THEN list[1]
    ELSE list[1] \o <<",">> \o join(Tail(list))

RECURSIVE split(_)
split(text) ==
    LET commas == {i \in 1..Len(text) : text[i] = ","}
    IN IF commas = {} THEN <<text>>
       ELSE LET i == CHOOSE k \in commas : \A j \in commas : k <= j
            IN <<SubSeq(text, 1, i - 1)>> \o split(SubSeq(text, i + 1, Len(text)))

\* class Book: the mapped columns, and the NOT NULL ones among the updatable.
BookColumns == {"id", "isbn", "title", "price", "publisher", "summary",
                "publication_date", "authors", "categories"}
NotNull == {"title", "price"}
\* class BookUpdate
BookUpdateFields == {"title", "price", "publisher", "summary", "publicationDate",
                     "authors", "categories"}

\* data.model_dump(exclude_unset=True): the fields the request body named.
model_dump(data) == [f \in data.fields_set |-> data.values[f]]

serialize_book(book) ==
    [id |-> book.id, isbn |-> book.isbn, title |-> book.title, price |-> book.price,
     publisher |-> book.publisher, summary |-> book.summary,
     publicationDate |-> book.publication_date,
     authors |-> IF book.authors # None /\ Val(book.authors) # <<>>
                 THEN split(Val(book.authors)) ELSE <<>>,
     categories |-> IF book.categories # None /\ Val(book.categories) # <<>>
                    THEN split(Val(book.categories)) ELSE <<>>]

\* for field, value in update_data.items(): setattr(book, field, value).
\* Only an attribute that is a mapped column reaches the row; any other name
\* becomes a plain attribute of the object and is gone after the refresh.
setattr(book, update_data) ==
    [c \in BookColumns |-> IF c \in DOMAIN update_data THEN update_data[c] ELSE book[c]]

update_book(book_id, data) ==
    LET req == [book_id |-> book_id, data |-> data]
        found == {b \in books : b.id = book_id}
    IN
    IF found = {}
    THEN /\ resp' = Response("update_book", 404, "RESOURCE_NOT_FOUND", req, NoInfo)
         /\ UNCHANGED <<dbVars, tokenVars, timeVars, inflight>>
    ELSE LET book == CHOOSE b \in found : TRUE
             dumped == model_dump(data)
             update_data ==
                 [f \in DOMAIN dumped |->
                    IF f \in {"authors", "categories"}
                    THEN IF dumped[f] # None /\ Val(dumped[f]) # <<>>
                         THEN Some(join(Val(dumped[f]))) ELSE None
                    ELSE dumped[f]]
             updated == setattr(book, update_data)
         IN IF \E c \in NotNull : updated[c] = None
            THEN \* db.commit() raises IntegrityError, which nothing catches
                 /\ resp' = Response("update_book", 500, "UNHANDLED", req, NoInfo)
                 /\ UNCHANGED <<dbVars, tokenVars, timeVars, inflight>>
            ELSE /\ books' = (books \ {book}) \cup {updated}
                 /\ resp' = Response("update_book", 200, "OK", req, serialize_book(updated))
                 /\ UNCHANGED <<users, nextUserId, ratings, nextRatingId, comments,
                                nextCommentId, tokenVars, timeVars, inflight>>

update_admin_book(book_id, data) == update_book(book_id, data)

\* -------------------------------------------------------------- rate limit
\* The counter of a client lives in the cache under rate:{ip}.  A key holds a
\* count and the time it expires at, Never when no expiry was set on it.
IPs == {"10.0.0.1"}
Never == 0 - 1
NoCounter == [val |-> 0, at |-> 0]
Counted(ip) == cache[ip].val > 0 /\ (cache[ip].at = Never \/ clock < cache[ip].at)

\* INCR: a missing or expired key starts at 1 without expiry; an existing one
\* is increased and keeps its expiry.
incr(ip) ==
    IF Counted(ip) THEN [cache EXCEPT ![ip].val = @ + 1]
    ELSE [cache EXCEPT ![ip] = [val |-> 1, at |-> Never]]

\* EXPIRE key seconds: no effect on a missing key.
expire(ip, seconds) ==
    IF Counted(ip) THEN [cache EXCEPT ![ip].at = clock + seconds] ELSE cache

\* count = r.incr(key)
dispatch_incr(p, ip) ==
    /\ inflight[p] = Idle
    /\ cache[ip].val < RateLimit + MaxExcess
    /\ cache' = incr(ip)
    /\ inflight' = [inflight EXCEPT ![p] = [op |-> "dispatch", ip |-> ip,
                                            count |-> cache'[ip].val]]
    /\ UNCHANGED <<dbVars, accessIssued, lastRefresh, olderRefresh, timeVars, resp>>

\* if count == 1: r.expire(key, 60); the request then goes on to the handler.
dispatch_expire(p) ==
    /\ p \in Busy("dispatch")
    /\ inflight[p].count = 1
    /\ cache' = expire(inflight[p].ip, RateWindow)
    /\ inflight' = [inflight EXCEPT ![p] = Idle]
    /\ resp' = Response("dispatch", 200, "CALL_NEXT",
                        [ip |-> inflight[p].ip, count |-> inflight[p].count], NoInfo)
    /\ UNCHANGED <<dbVars, accessIssued, lastRefresh, olderRefresh, timeVars>>

\* if count > 60: raise HTTPException(429); else call_next(request)
dispatch_check(p) ==
    /\ p \in Busy("dispatch")
    /\ inflight[p].count # 1
    /\ inflight' = [inflight EXCEPT ![p] = Idle]
    /\ resp' = IF inflight[p].count > RateLimit
               THEN Response("dispatch", 429, "Too many requests",
                             [ip |-> inflight[p].ip, count |-> inflight[p].count], NoInfo)
               ELSE Response("dispatch", 200, "CALL_NEXT",
                             [ip |-> inflight[p].ip, count |-> inflight[p].count], NoInfo)
    /\ UNCHANGED <<dbVars, tokenVars, timeVars>>

\* ------------------------------------------------------- concurrent auth
\* login_user and refresh_access_token reach the cache in separate calls.  A
\* worker runs the request up to its last cache call in one step and makes
\* that call, r.set, in a second step; other requests may run in between.
login_user_issue(p, email, password) ==
    LET found == UserByEmail(email)
        req == [email |-> email, password |-> password]
    IN
    /\ inflight[p] = Idle
    /\ IF found = {} \/ (\A u \in found : ~verify_password(password, u.hashed_password))
       THEN Answer(Response("login", 401, "UNAUTHORIZED", req, NoInfo))
       ELSE LET user == CHOOSE u \in found : TRUE IN
            IF user.status # "ACTIVE"
            THEN Answer(Response("login", 403, "FORBIDDEN", req, NoInfo))
            ELSE /\ Cardinality(accessIssued \cup {create_access_token(user.id, user.role)})
                       <= MaxIssued
                 /\ inflight' = [inflight EXCEPT ![p] =
                       [op |-> "login", req |-> req, user_id |-> user.id, role |-> user.role,
                        access |-> create_access_token(user.id, user.role),
                        refresh |-> create_refresh_token(user.id, user.role)]]
                 /\ UNCHANGED <<dbVars, tokenVars, timeVars, resp>>

\* Mutant: the login keeps a cache entry that is already there.
login_user_store_KeepFirst(p) ==
    LET w == inflight[p] IN
    /\ w.op = "login"
    /\ inflight' = [inflight EXCEPT ![p] = Idle]
    /\ cache' = IF CacheGet(w.user_id) = NoToken
                THEN CacheSet(w.user_id, w.refresh, RefreshTTL) ELSE cache
    /\ accessIssued' = accessIssued \cup {w.access}
    /\ IssueRefresh(w.user_id, w.refresh)
    /\ resp' = Response("login", 200, "OK", w.req,
                        [access_token |-> w.access, refresh_token |-> w.refresh,
                         role |-> w.role])
    /\ UNCHANGED <<dbVars, timeVars>>

login_user_store(p) ==
    LET w == inflight[p] IN
    /\ w.op = "login"
    /\ inflight' = [inflight EXCEPT ![p] = Idle]
    /\ cache' = CacheSet(w.user_id, w.refresh, RefreshTTL)
    /\ accessIssued' = accessIssued \cup {w.access}
    /\ IssueRefresh(w.user_id, w.refresh)
    /\ resp' = Response("login", 200, "OK", w.req,
                        [access_token |-> w.access, refresh_token |-> w.refresh,
                         role |-> w.role])
    /\ UNCHANGED <<dbVars, timeVars>>

refresh_access_token_read(p, refresh_token) ==
    LET payload == jwt_decode(refresh_token)
        req == [refresh_token |-> refresh_token]
    IN
    /\ inflight[p] = Idle
    /\ IF payload.err # "ok"
       THEN Answer(Response("refresh", 401, "TOKEN_EXPIRED", req, NoInfo))
       ELSE IF payload.sub = NoSub
       THEN Answer(Response("refresh", 401, "UNAUTHORIZED", req, NoInfo))
       ELSE IF RefreshMismatch(CacheGet(payload.sub), refresh_token)
       THEN Answer(Response("refresh", 401, "TOKEN_EXPIRED", req, NoInfo))
       ELSE /\ Cardinality(accessIssued \cup {create_access_token(payload.sub, payload.role)})
                  <= MaxIssued
            /\ inflight' = [inflight EXCEPT ![p] =
                  [op |-> "refresh", req |-> req, user_id |-> payload.sub,
                   role |-> payload.role,
                   access |-> create_access_token(payload.sub, payload.role),
                   refresh |-> create_refresh_token(payload.sub, payload.role)]]
            /\ UNCHANGED <<dbVars, tokenVars, timeVars, resp>>

refresh_access_token_store(p) ==
    LET w == inflight[p] IN
    /\ w.op = "refresh"
    /\ inflight' = [inflight EXCEPT ![p] = Idle]
    /\ cache' = CacheSet(w.user_id, w.refresh, RefreshTTL)
    /\ accessIssued' = accessIssued \cup {w.access}
    /\ IssueRefresh(w.user_id, w.refresh)
    /\ resp' = Response("refresh", 200, "OK", w.req,
                        [access_token |-> w.access, refresh_token |-> w.refresh,
                         role |-> w.role])
    /\ UNCHANGED <<dbVars, timeVars>>

\* ----------------------------------------------------------- specifications
Login == \E email \in Emails, password \in Passwords : login_user(email, password)
Refresh == \E t \in Presentable : refresh_access_token(t)
Logout == \E c \in Credentials : logout(c)
Advance == \E d \in TickSteps : Tick(d)
AccessExpiry == Tick(AccessTTL + 1)

UserData == [email : Emails, password : {"password123"}, name : {"New"}]
StatusInputs == Statuses \cup {"BANNED"}
RoleInputs == Roles \cup {"OWNER"}

\* Requests to the admin, rating and comment endpoints arrive without a header
\* or with an issued access token.
Callers == accessIssued \cup {NoHeader}

\* The ids a request can name: every id handed out so far and one never used.
TargetIds == 1..nextUserId

Register == \E d \in UserData, f \in BOOLEAN : register_user(d, f)
GetMe == \E c \in Credentials : get_me(c)
UpdateMe == \E c \in Credentials, n \in Names : update_me(c, n)
DeleteMe == \E c \in Credentials : delete_me(c)
ListUsers == \E c \in Callers : list_users(c)
AdminStats == \E c \in Callers : admin_stats(c)
ChangeUserStatus ==
    \E c \in Callers, id \in TargetIds, st \in StatusInputs : change_user_status(c, id, st)
ChangeUserRole ==
    \E c \in Callers, id \in TargetIds, r \in RoleInputs : change_user_role(c, id, r)

DeleteAdminBook == \E c \in Callers, b \in BookIds : delete_admin_book(c, b)

CreateRating ==
    \E p \in Procs, c \in Callers, b \in BookIds, sc \in CreateScores :
        create_rating_api(p, c, b, sc)
CreateRatingCommit == \E p \in Procs : create_rating_commit(p)
UpdateRating ==
    \E p \in Procs, c \in Callers, b \in BookIds, sc \in UpdateScores :
        update_rating_api(p, c, b, sc)
UpdateRatingCommit == \E p \in Procs : update_rating_commit(p)
DeleteRating == \E p \in Procs, c \in Callers, b \in BookIds : remove_rating(p, c, b)
DeleteRatingCommit == \E p \in Procs : delete_rating_commit(p)

NextToken == Login \/ Refresh \/ Logout \/ Advance
SpecToken == Init /\ [][NextToken]_vars

NextGate == Login \/ AccessExpiry \/ GetMe \/ DeleteMe \/ ChangeUserStatus
SpecGate == Init /\ [][NextGate]_vars

NextAdmin ==
    Login \/ ListUsers \/ AdminStats \/ ChangeUserStatus \/ ChangeUserRole
          \/ DeleteAdminBook
SpecAdmin == Init /\ [][NextAdmin]_vars

NextRating ==
    Login \/ CreateRating \/ CreateRatingCommit \/ UpdateRating \/ UpdateRatingCommit
          \/ DeleteRating \/ DeleteRatingCommit
SpecRating == Init /\ [][NextRating]_vars

\* The comment ids a request can name: every id handed out and one never used.
CommentIds == 1..nextCommentId
Texts == {<<" ">>, <<"a">>, <<" ", "b">>}
OptionalTexts == {{}} \cup {{t} : t \in Texts}

AddComment ==
    \E c \in Callers, b \in BookIds, t \in Texts : add_comment(c, b, t)
EditComment ==
    \E c \in Callers, id \in CommentIds, t \in OptionalTexts : edit_comment(c, id, t)
RemoveComment == \E c \in Callers, id \in CommentIds : remove_comment(c, id)

NextComment == Login \/ AddComment \/ EditComment \/ RemoveComment
SpecComment == Init /\ [][NextComment]_vars

Second == Tick(1)
LoginIssue ==
    \E p \in Procs, email \in Emails, password \in Passwords :
        login_user_issue(p, email, password)
LoginStore == \E p \in Procs : login_user_store(p)
RefreshRead == \E p \in Procs, t \in RefreshIssued : refresh_access_token_read(p, t)
RefreshStore == \E p \in Procs : refresh_access_token_store(p)

NextRace == LoginIssue \/ LoginStore \/ RefreshRead \/ RefreshStore \/ Logout \/ Second
SpecRace == Init /\ [][NextRace]_vars

\* List requests: a page and a size below, at and above the limits the
\* handlers check, the primary key in both directions and a column that does
\* not exist, with and without a keyword.
Pages == {0, 1, 2}
Sizes == {0, 1, 2, 51}
CatalogSizes == Sizes \cup {50}
Sorts == {<<"id", "ASC">>, <<"id", "DESC">>, <<"nope", "ASC">>, <<"id">>}
Keywords == {{}, {<<"b">>}}

\* Rows the comment and rating tables may hold when the list requests arrive,
\* in the order the requests wrote them.
SeedComments ==
    << [id |-> 1, user_id |-> 2, book_id |-> 1, content |-> <<"a">>],
       [id |-> 2, user_id |-> 2, book_id |-> 1, content |-> <<"a", "b">>],
       [id |-> 3, user_id |-> 1, book_id |-> 1, content |-> <<"b">>] >>
SeedRatings ==
    << [id |-> 1, user_id |-> 2, book_id |-> 1, score |-> 5],
       [id |-> 2, user_id |-> 1, book_id |-> 1, score |-> 3],
       [id |-> 3, user_id |-> 2, book_id |-> 2, score |-> 1] >>

\* A stocked shop: every book of BookIds, and comment and rating tables that
\* are empty or hold the rows above.
InitCatalog ==
    /\ users = SeedUsers
    /\ nextUserId = 3
    /\ books = BookIds
    /\ \E n \in {0, Len(SeedRatings)} :
          /\ ratings = {SeedRatings[i] : i \in 1..n}
          /\ nextRatingId = n + 1
          /\ comments = {SeedComments[i] : i \in 1..n}
          /\ nextCommentId = n + 1
    /\ cache = [id \in UserIds |-> NoEntry]
    /\ clock = 0
    /\ ticks = 0
    /\ accessIssued = {}
    /\ lastRefresh = [id \in UserIds |-> NoToken]
    /\ olderRefresh = [id \in UserIds |-> {}]
    /\ inflight = [p \in Procs |-> Idle]
    /\ resp = Response("init", 0, "NONE", NoInfo, NoInfo)

ListBooks == \E page \in Pages, size \in CatalogSizes, sort \in Sorts : list_books(page, size, sort)
SearchBooks ==
    \E page \in Pages, size \in CatalogSizes, sort \in Sorts : search_books_api(page, size, sort)
FilterBooksByPrice ==
    \E page \in Pages, size \in CatalogSizes, sort \in Sorts :
        filter_books_by_price(page, size, sort)
ListComments ==
    \E b \in BookIds, page \in Pages, size \in Sizes, sort \in Sorts, kw \in Keywords :
        \E db_strict \in IF (page - 1) * size < 0 THEN BOOLEAN ELSE {TRUE} :
            list_comments(b, page, size, sort, kw, db_strict)
ListRatings ==
    \E b \in BookIds, page \in Pages, size \in Sizes, sort \in Sorts :
        list_ratings(b, page, size, sort)
ListUsersAdmin ==
    \E c \in Callers, page \in Pages, size \in Sizes, sort \in Sorts :
        list_users_admin(c, page, size, sort)
AdminGetUserComments ==
    \E c \in Callers, id \in TargetIds, page \in Pages, size \in Sizes :
        admin_get_user_comments(c, id, page, size)
AdminGetUserRatings ==
    \E c \in Callers, id \in TargetIds, page \in Pages, size \in Sizes :
        admin_get_user_ratings(c, id, page, size)

NextList ==
    Login \/ ListBooks \/ SearchBooks \/ FilterBooksByPrice \/ ListComments \/ ListRatings
          \/ ListUsersAdmin \/ AdminGetUserComments \/ AdminGetUserRatings
SpecList == InitCatalog /\ [][NextList]_vars

\* The administrator signs in.
LoginAdmin == \E password \in Passwords : login_user("admin@test.com", password)

NextAccount == Register \/ LoginAdmin \/ ChangeUserStatus \/ ChangeUserRole
SpecAccount == Init /\ [][NextAccount]_vars

\* Every kind of write: accounts, comments, ratings and the catalogue, with
\* the seeded accounts signing in and commenting on and rating book 1.
SignIn == \E email \in {"user1@test.com", "admin@test.com"} : login_user(email, "password123")
PostComment == \E c \in accessIssued : add_comment(c, 1, <<"a">>)
RateBook == \E p \in Procs, c \in accessIssued : create_rating_api(p, c, 1, 5)

Withdraw == \E c \in accessIssued : delete_me(c)

NextWrite ==
    Register \/ SignIn \/ Withdraw \/ PostComment \/ RateBook \/ CreateRatingCommit
             \/ DeleteAdminBook
SpecWrite == Init /\ [][NextWrite]_vars

\* One book with all its columns, updated by partial payloads.
SeedBook ==
    [id |-> 1, isbn |-> "978-1", title |-> Some("T1"), price |-> Some(1),
     publisher |-> Some("P1"), summary |-> Some("S1"), publication_date |-> Some("D1"),
     authors |-> Some(<<"a">>), categories |-> Some(<<"c">>)]
InitBook ==
    /\ users = SeedUsers
    /\ nextUserId = 3
    /\ books = {SeedBook}
    /\ ratings = {}
    /\ nextRatingId = 1
    /\ comments = {}
    /\ nextCommentId = 1
    /\ cache = [id \in UserIds |-> NoEntry]
    /\ clock = 0
    /\ ticks = 0
    /\ accessIssued = {}
    /\ lastRefresh = [id \in UserIds |-> NoToken]
    /\ olderRefresh = [id \in UserIds |-> {}]
    /\ inflight = [p \in Procs |-> Idle]
    /\ resp = Response("init", 0, "NONE", NoInfo, NoInfo)

\* The values a request body gives to the fields it names.
Supplied ==
    [title : {Some("T2")}, price : {Some(2)}, publisher : {Some("P2")},
     summary : {Some("S2")}, publicationDate : {Some("D2")},
     authors : {Some(<<>>), Some(<< <<"x">>, <<"y">> >>)}, categories : {Some(<< <<"k">> >>)}]
\* Bodies naming no field, one, two or all of them, and the body {"title": null}.
Named == {S \in SUBSET BookUpdateFields : Cardinality(S) <= 2 \/ S = BookUpdateFields}
BookUpdates ==
    { [values |-> [f \in BookUpdateFields |-> IF f \in S THEN v[f] ELSE None],
       fields_set |-> S] : S \in Named, v \in Supplied }
    \cup { [values |-> [f \in BookUpdateFields |-> None], fields_set |-> {"title"}] }
UpdateAdminBook == \E book_id \in BookIds, data \in BookUpdates : update_admin_book(book_id, data)
NextBook == UpdateAdminBook
SpecBook == InitBook /\ [][NextBook]_vars

\* Tokens that outlive a change of their owner's row.
NextAuthz == Login \/ GetMe \/ DeleteMe \/ AdminStats \/ ChangeUserStatus \/ ChangeUserRole
SpecAuthz == Init /\ [][NextAuthz]_vars

\* Logins and refreshes around changes of the account's row.
NextSession == Login \/ Refresh \/ ChangeUserStatus \/ ChangeUserRole \/ DeleteMe
SpecSession == Init /\ [][NextSession]_vars

\* Only accounts of role USER sign in: self-service requests, and the same
\* callers trying the admin endpoints.
LoginUser ==
    \E email \in Emails \ {"admin@test.com"}, password \in Passwords :
        login_user(email, password)
Rename == \E c \in accessIssued : update_me(c, "New")
RefreshLast == \E id \in UserIds : refresh_access_token(lastRefresh[id])
SignOut == \E c \in accessIssued : logout(c)
RateOnce == \E c \in accessIssued : create_rating_api("w1", c, 1, 5)
Promote == \E c \in accessIssued, id \in TargetIds : change_user_role(c, id, "ADMIN")
Suspend == \E c \in accessIssued, id \in TargetIds : change_user_status(c, id, "INACTIVE")
NextSelf ==
    Register \/ LoginUser \/ RefreshLast \/ SignOut \/ Rename \/ Withdraw \/ PostComment
             \/ RateOnce \/ CreateRatingCommit \/ Promote \/ Suspend
SpecSelf == Init /\ [][NextSelf]_vars

\* Any token the server handed out, presented where either kind is expected.
GetMeAny == \E c \in Presentable : get_me(c)
NextBearer == Login \/ Refresh \/ GetMeAny \/ Second
SpecBearer == Init /\ [][NextBearer]_vars

\* Requests of one client passing the rate limiter on two workers.
InitRate ==
    /\ users = SeedUsers
    /\ nextUserId = 3
    /\ books = {1}
    /\ ratings = {}
    /\ nextRatingId = 1
    /\ comments = {}
    /\ nextCommentId = 1
    /\ cache = [ip \in IPs |-> NoCounter]
    /\ clock = 0
    /\ ticks = 0
    /\ accessIssued = {}
    /\ lastRefresh = [id \in UserIds |-> NoToken]
    /\ olderRefresh = [id \in UserIds |-> {}]
    /\ inflight = [p \in Procs |-> Idle]
    /\ resp = Response("init", 0, "NONE", NoInfo, NoInfo)
DispatchIncr == \E p \in Procs, ip \in IPs : dispatch_incr(p, ip)
DispatchExpire == \E p \in Procs : dispatch_expire(p)
DispatchCheck == \E p \in Procs : dispatch_check(p)
WindowPasses == \E d \in {1, RateWindow} : Tick(d)
NextRate == DispatchIncr \/ DispatchExpire \/ DispatchCheck \/ WindowPasses
SpecRate == InitRate /\ [][NextRate]_vars

NextUser == Register \/ Login \/ GetMe \/ UpdateMe \/ DeleteMe
SpecUser == Init /\ [][NextUser]_vars

\* ------------------------------------------------------------------ claims
IsLiveJwt(t) == t.kind = "jwt" /\ t.exp >= clock /\ t.sub # NoSub

\* C1: the cache entry of a user holds the refresh token issued most recently
\* for that user, Refresh succeeds only on a token equal to the cached value,
\* and every refresh token of an earlier issuance for that user is rejected
\* with TOKEN_EXPIRED.
C1_SingleActiveRefresh ==
    [][ /\ \A u \in UserIds : cache[u] # NoEntry => cache[u].val = lastRefresh[u]
        /\ \A t \in Presentable :
             refresh_access_token(t) =>
                /\ resp'.status = 200 => (t.kind = "jwt" /\ t = CacheGet(t.sub))
                /\ (t.kind = "jwt" /\ t.sub # NoSub /\ t \in olderRefresh[t.sub])
                      => (resp'.status = 401 /\ resp'.code = "TOKEN_EXPIRED") ]_vars

\* C2: once Refresh(t) has succeeded, every later Refresh(t) with the same
\* token t fails with 401 TOKEN_EXPIRED, whatever the time between the calls.
JustRedeemed ==
    IF resp.op = "refresh" /\ resp.status = 200 THEN {resp.req.refresh_token} ELSE {}

C2_RotationInvalidatesPrevious ==
    [][ \A t \in JustRedeemed :
          refresh_access_token(t) => (resp'.status = 401 /\ resp'.code = "TOKEN_EXPIRED") ]_vars

\* C3: Refresh with a signed, unexpired token that differs from the value
\* cached for its subject (or whose subject has no cache entry) answers
\* 401 TOKEN_EXPIRED, issues no token and leaves the cache as it was.
C3_MismatchRejected ==
    [][ \A t \in Presentable :
          (refresh_access_token(t) /\ IsLiveJwt(t) /\ CacheGet(t.sub) # t) =>
             /\ resp'.status = 401 /\ resp'.code = "TOKEN_EXPIRED" /\ resp'.out = NoInfo
             /\ UNCHANGED tokenVars ]_vars

\* C3 witness: a live token of a former issuance was refused while another
\* token is cached for its subject.
C3_Witness ==
    /\ resp.op = "refresh" /\ resp.code = "TOKEN_EXPIRED"
    /\ IsLiveJwt(resp.req.refresh_token)
    /\ CacheGet(resp.req.refresh_token.sub) # NoToken
    /\ CacheGet(resp.req.refresh_token.sub) # resp.req.refresh_token

\* The outcome of bearer authentication, case by case in the order of the
\* claim, on credential c in the current state.
AuthCase(c) ==
    IF c.kind # "jwt" THEN <<401, "UNAUTHORIZED">>
    ELSE IF c.exp < clock THEN <<401, "UNAUTHORIZED">>
    ELSE IF c.sub = NoSub THEN <<401, "UNAUTHORIZED">>
    ELSE IF ~(\E u \in users : u.id = c.sub) THEN <<404, "RESOURCE_NOT_FOUND">>
    ELSE IF \E u \in users : u.id = c.sub /\ u.status # "ACTIVE" THEN <<403, "FORBIDDEN">>
    ELSE <<200, "OK">>

CallerRow(c) == CHOOSE u \in users : u.id = c.sub

RefusedBy(c) ==
    /\ resp'.status = AuthCase(c)[1] /\ resp'.code = AuthCase(c)[2]
    /\ UNCHANGED <<dbVars, tokenVars>>

\* The rating rows stored for a user and a book, read from the table itself.
Stored(user_id, book_id) == {r \in ratings : r.user_id = user_id /\ r.book_id = book_id}

\* A step in which some worker's create_rating or update_rating request is
\* taken up: it is answered at once or goes on to its commit.
RatingTaken(op) ==
    \/ resp'.op = op /\ inflight' = inflight
    \/ \E p \in Procs : inflight[p] = Idle /\ inflight'[p].op = op

NothingWritten == UNCHANGED <<dbVars, inflight>>

\* C4: in every reachable state, whatever the interleaving of create, update
\* and delete requests on ratings, no two rows of the ratings table have the
\* same (user_id, book_id).
C4_OneRatingPerUserBook ==
    \A r1 \in ratings, r2 \in ratings :
        (r1.user_id = r2.user_id /\ r1.book_id = r2.book_id) => r1 = r2

\* C4 witness: two creates for one (user, book) raced; one row is stored and
\* the commit of the other create was refused.
C4_Witness ==
    /\ resp.op = "create_rating" /\ resp.status = 500
    /\ \E r \in ratings : TRUE

\* C5: on an existing book the user has not rated, a create_rating with a
\* valid score proceeds and its commit answers 201 storing the row; a second
\* create_rating by the same user for the same book answers 409
\* STATE_CONFLICT and leaves the stored rating, score included, as it was.
C5_SecondCreateConflicts ==
    [][ /\ RatingTaken("create_rating") =>
             \A c \in accessIssued, b \in books, sc \in CreateScores \cap (1..5) :
                AuthCase(c)[1] = 200 =>
                   \A p \in Procs : create_rating_api(p, c, b, sc) =>
                      IF Stored(c.sub, b) = {}
                      THEN inflight'[p] = [op |-> "create_rating", user_id |-> c.sub,
                                           book_id |-> b, score |-> sc]
                      ELSE /\ resp'.status = 409 /\ resp'.code = "STATE_CONFLICT"
                           /\ ratings' = ratings /\ inflight' = inflight
        /\ \A p \in Busy("create_rating") :
             (Stored(inflight[p].user_id, inflight[p].book_id) = {}
                 /\ create_rating_commit(p)) =>
                /\ resp'.status = 201
                /\ \E r \in ratings' \ ratings :
                      /\ r.user_id = inflight[p].user_id /\ r.book_id = inflight[p].book_id
                      /\ r.score = inflight[p].score
                      /\ ratings' = ratings \cup {r} ]_vars

\* C5 witness: a create_rating was answered 409 while the caller's rating of
\* the book, stored by an earlier create, is in the table.
C5_Witness ==
    /\ resp.op = "create_rating" /\ resp.status = 409 /\ resp.code = "STATE_CONFLICT"
    /\ \E r \in ratings : r.book_id \in books

\* C6 as stated: every stored score is in 1..5; every create or update with a
\* score below 1 or above 5 answers 422 VALIDATION_FAILED and writes nothing;
\* a create with a score in 1..5 on an existing, not yet rated book gives 201.
C6_AsStated ==
    [][ /\ RatingTaken("create_rating") =>
             \A c \in accessIssued, b \in BookIds, sc \in CreateScores \ (1..5) :
                AuthCase(c)[1] = 200 =>
                   \A p \in Procs : create_rating_api(p, c, b, sc) =>
                      (resp'.status = 422 /\ resp'.code = "VALIDATION_FAILED" /\ NothingWritten)
        /\ RatingTaken("update_rating") =>
             \A c \in accessIssued, b \in BookIds, sc \in UpdateScores \ (1..5) :
                AuthCase(c)[1] = 200 =>
                   \A p \in Procs : update_rating_api(p, c, b, sc) =>
                      (resp'.status = 422 /\ resp'.code = "VALIDATION_FAILED" /\ NothingWritten) ]_vars

\* The answer of create_rating and of update_rating to a score outside 1..5:
\* the checks that come before the score check decide first.
CreateRefusal(user_id, book_id) ==
    IF book_id \notin books THEN <<404, "RESOURCE_NOT_FOUND">>
    ELSE IF Stored(user_id, book_id) # {} THEN <<409, "STATE_CONFLICT">>
    ELSE <<422, "VALIDATION_FAILED">>

UpdateRefusal(user_id, book_id) ==
    IF Stored(user_id, book_id) = {} THEN <<404, "RESOURCE_NOT_FOUND">>
    ELSE <<422, "VALIDATION_FAILED">>

\* C6: every stored score is in 1..5.  A create or update with a score below
\* 1 or above 5 writes nothing and is refused: a create with 404 when the
\* book is missing, else 409 when the caller has rated the book, else 422
\* VALIDATION_FAILED; an update with 404 when the caller has no rating of the
\* book, else 422 VALIDATION_FAILED.  A create with a score in 1..5 on an
\* existing book the caller has not rated is taken up, and its commit on a
\* still unrated book answers 201 and stores that score.
C6_ScoreInRange ==
    /\ [](\A r \in ratings : r.score \in 1..5)
    /\ [][ /\ RatingTaken("create_rating") =>
                \A c \in accessIssued, b \in BookIds, sc \in CreateScores :
                   AuthCase(c)[1] = 200 =>
                      \A p \in Procs : create_rating_api(p, c, b, sc) =>
                         IF sc < 1 \/ sc > 5
                         THEN /\ resp'.status = CreateRefusal(c.sub, b)[1]
                              /\ resp'.code = CreateRefusal(c.sub, b)[2]
                              /\ NothingWritten
                         ELSE (b \in books /\ Stored(c.sub, b) = {}) =>
                                 (inflight'[p].op = "create_rating" /\ inflight'[p].score = sc)
           /\ RatingTaken("update_rating") =>
                \A c \in accessIssued, b \in BookIds, sc \in UpdateScores \ (1..5) :
                   AuthCase(c)[1] = 200 =>
                      \A p \in Procs : update_rating_api(p, c, b, sc) =>
                         /\ resp'.status = UpdateRefusal(c.sub, b)[1]
                         /\ resp'.code = UpdateRefusal(c.sub, b)[2]
                         /\ NothingWritten
           /\ \A p \in Busy("create_rating") :
                (Stored(inflight[p].user_id, inflight[p].book_id) = {}
                    /\ create_rating_commit(p)) =>
                   /\ resp'.status = 201
                   /\ \E r \in ratings' : r.score = inflight[p].score /\ r.id = nextRatingId ]_vars

\* C6 witness: an update of a stored rating with a score outside 1..5 was
\* answered 422 and the stored score is still in range.
C6_Witness ==
    /\ resp.op = "update_rating" /\ resp.status = 422 /\ resp.code = "VALIDATION_FAILED"
    /\ \E r \in ratings : r.score \in 1..5

\* C7: no two user rows share an email; a registration whose email is taken
\* answers 409 DUPLICATE_RESOURCE and adds no row; a registration with a free
\* email that the database accepts answers 201 and adds the row.
C7_UniqueEmail ==
    /\ [](\A u1 \in users, u2 \in users : u1.email = u2.email => u1 = u2)
    /\ [][ resp'.op = "register_user" =>
              LET d == resp'.req.user_data
                  f == resp'.req.db_fault
              IN register_user(d, f) =>
                    /\ (\E u \in users : u.email = d.email) =>
                          /\ resp'.status = 409 /\ resp'.code = "DUPLICATE_RESOURCE"
                          /\ users' = users /\ nextUserId' = nextUserId
                    /\ (~f /\ ~(\E u \in users : u.email = d.email)) =>
                          /\ resp'.status = 201
                          /\ \E u \in users' \ users :
                                u.email = d.email /\ users' = users \cup {u} ]_vars

\* C7 witness: an email registered in this run was registered again and the
\* second registration was answered 409.
C7_Witness ==
    /\ resp.op = "register_user" /\ resp.status = 409 /\ ~resp.req.db_fault
    /\ \E u \in users : u.email = resp.req.user_data.email /\ u \notin SeedUsers

NonBlank(text) == \E i \in 1..Len(text) : text[i] # " "

\* C8: on an existing comment, update_comment and delete_comment by an
\* authenticated caller who is not its author answer 403 FORBIDDEN and leave
\* the comment as it was; by its author, the update with non-blank content
\* stores the content and the delete removes the row.  On a missing comment
\* both answer 404, whoever calls.
C8_CommentOwnership ==
    [][ /\ resp'.op = "update_comment" =>
             LET id == resp'.req.comment_id IN
             \A c \in Callers, t \in OptionalTexts :
                (edit_comment(c, id, t) /\ AuthCase(c)[1] = 200) =>
                   IF ~(\E cm \in comments : cm.id = id)
                   THEN resp'.status = 404 /\ resp'.code = "RESOURCE_NOT_FOUND"
                        /\ comments' = comments
                   ELSE \A cm \in comments : cm.id = id =>
                           IF cm.user_id # c.sub
                           THEN resp'.status = 403 /\ resp'.code = "FORBIDDEN"
                                /\ comments' = comments
                           ELSE \A text \in t : NonBlank(text) =>
                                   /\ resp'.status = 200
                                   /\ comments' = (comments \ {cm})
                                                     \cup {[cm EXCEPT !.content = text]}
        /\ resp'.op = "delete_comment" =>
             LET id == resp'.req.comment_id IN
             \A c \in Callers :
                (remove_comment(c, id) /\ AuthCase(c)[1] = 200) =>
                   IF ~(\E cm \in comments : cm.id = id)
                   THEN resp'.status = 404 /\ resp'.code = "RESOURCE_NOT_FOUND"
                        /\ comments' = comments
                   ELSE \A cm \in comments : cm.id = id =>
                           IF cm.user_id # c.sub
                           THEN resp'.status = 403 /\ resp'.code = "FORBIDDEN"
                                /\ comments' = comments
                           ELSE resp'.status = 200 /\ comments' = comments \ {cm} ]_vars

\* C8 witness: a caller was refused with 403 on a comment that exists and is
\* another user's.
C8_Witness ==
    /\ resp.op \in {"update_comment", "delete_comment"} /\ resp.status = 403
    /\ \E cm \in comments : cm.id = resp.req.comment_id

AdminOps ==
    {"list_users", "admin_stats", "change_user_status", "change_user_role", "delete_book"}

IsUserCaller(c) == AuthCase(c)[1] = 200 /\ CallerRow(c).role = "USER"
IsAdminCaller(c) == AuthCase(c)[1] = 200 /\ CallerRow(c).role = "ADMIN"

Forbidden ==
    /\ resp'.status = 403 /\ resp'.code = "FORBIDDEN"
    /\ UNCHANGED <<dbVars, tokenVars>>

\* C10: an admin-only endpoint (user list, dashboard, user status and role,
\* book deletion) answers an authenticated caller of role USER with 403
\* FORBIDDEN and runs nothing; a caller of role ADMIN gets the operation
\* itself.
C10_AdminOnly ==
    [][ /\ resp'.op = "list_users" =>
             \A c \in Callers : list_users(c) =>
                /\ IsUserCaller(c) => Forbidden
                /\ IsAdminCaller(c) => (resp'.status = 200 /\ resp'.out.items = users)
        /\ resp'.op = "admin_stats" =>
             \A c \in Callers : admin_stats(c) =>
                /\ IsUserCaller(c) => Forbidden
                /\ IsAdminCaller(c) => (resp'.status = 200 /\ resp'.out.users = Cardinality(users))
        /\ resp'.op = "change_user_status" =>
             LET id == resp'.req.user_id
                 st == resp'.req.status
             IN \A c \in Callers : change_user_status(c, id, st) =>
                   /\ IsUserCaller(c) => Forbidden
                   /\ (IsAdminCaller(c) /\ st \in Statuses /\ UserById(id) # {}) =>
                         (resp'.status = 200 /\ \A u \in users' : u.id = id => u.status = st)
        /\ resp'.op = "change_user_role" =>
             LET id == resp'.req.user_id
                 r == resp'.req.role
             IN \A c \in Callers : change_user_role(c, id, r) =>
                   /\ IsUserCaller(c) => Forbidden
                   /\ (IsAdminCaller(c) /\ r \in Roles /\ UserById(id) # {}) =>
                         (resp'.status = 200 /\ \A u \in users' : u.id = id => u.role = r)
        /\ resp'.op = "delete_book" =>
             LET b == resp'.req.book_id
             IN \A c \in Callers : delete_admin_book(c, b) =>
                   /\ IsUserCaller(c) => Forbidden
                   /\ (IsAdminCaller(c) /\ b \in books) =>
                         (resp'.status = 204 /\ books' = books \ {b}) ]_vars

\* C10 witness: an admin-only endpoint has turned away an authenticated
\* caller for not being ADMIN.
C10_Witness ==
    /\ resp.op \in AdminOps /\ resp.status = 403
    /\ resp.out = [message |-> "Admin only API"]

\* C11: a login with an unknown email or a wrong password answers 401
\* UNAUTHORIZED, the same for both; with the right password of an account
\* that is not ACTIVE, 403 FORBIDDEN; with the right password of an ACTIVE
\* account, 200 with tokens of that user, the refresh token stored in the
\* user's cache entry.  A failed login issues no token and leaves the cache
\* as it was.
C11_LoginOutcomes ==
    [][ resp'.op = "login" =>
          LET email == resp'.req.email
              password == resp'.req.password
              matching == {u \in users : u.email = email
                                         /\ u.hashed_password = hash_password(password)}
          IN login_user(email, password) =>
                IF matching = {}
                THEN /\ resp'.status = 401 /\ resp'.code = "UNAUTHORIZED"
                     /\ resp'.out = NoInfo /\ UNCHANGED tokenVars
                ELSE \A u \in matching :
                        IF u.status # "ACTIVE"
                        THEN /\ resp'.status = 403 /\ resp'.code = "FORBIDDEN"
                             /\ resp'.out = NoInfo /\ UNCHANGED tokenVars
                        ELSE /\ resp'.status = 200
                             /\ resp'.out.access_token.sub = u.id
                             /\ resp'.out.refresh_token.sub = u.id
                             /\ cache'[u.id].val = resp'.out.refresh_token
                             /\ \A o \in UserIds \ {u.id} : cache'[o] = cache[o] ]_vars

\* C11 witness: the right password of an account made INACTIVE was answered
\* 403 while the refresh token of its earlier login is still cached.
C11_Witness ==
    /\ resp.op = "login" /\ resp.status = 403
    /\ \E u \in users : /\ u.email = resp.req.email /\ u.status = "INACTIVE"
                        /\ cache[u.id] # NoEntry

\* A step that completes a refresh request presenting token t.
RefreshAnswered(t) ==
    \/ refresh_access_token(t)
    \/ \E p \in Procs : inflight[p] = Idle /\ inflight' = inflight
                        /\ refresh_access_token_read(p, t)
    \/ \E p \in Procs : inflight[p].op = "refresh" /\ inflight[p].req.refresh_token = t
                        /\ refresh_access_token_store(p)

\* C12: a logout by an authenticated caller answers 200 whether or not the
\* caller has a cache entry, leaves that entry absent, and changes nothing in
\* the cache when the entry was already absent; an absent entry stays absent
\* until a login succeeds; and a refresh completing while the entry of its
\* subject is absent answers 401 TOKEN_EXPIRED.
C12_LogoutRevokes ==
    [][ /\ resp'.op = "logout" =>
             \A c \in Credentials : (AuthCase(c)[1] = 200 /\ logout(c)) =>
                /\ resp'.status = 200
                /\ cache'[c.sub] = NoEntry
                /\ cache[c.sub] = NoEntry => cache' = cache
        /\ \A u \in UserIds :
             (cache[u] = NoEntry /\ cache'[u] # NoEntry) =>
                (resp'.op = "login" /\ resp'.status = 200)
        /\ resp'.op = "refresh" =>
             LET t == resp'.req.refresh_token IN
             (t \in RefreshIssued /\ cache[t.sub] = NoEntry /\ RefreshAnswered(t)) =>
                (resp'.status = 401 /\ resp'.code = "TOKEN_EXPIRED") ]_vars

\* C19: when a refresh of token t has succeeded and rotated the entry to
\* another token, a second request presenting t that completes next, whatever
\* the order of the two requests' cache reads and writes, answers 401
\* TOKEN_EXPIRED: t is redeemed at most once.
C19_RedeemedOnce ==
    [][ (resp.op = "refresh" /\ resp.status = 200
           /\ resp.out.refresh_token # resp.req.refresh_token
           /\ resp'.op = "refresh") =>
          (RefreshAnswered(resp.req.refresh_token) =>
              (resp'.status = 401 /\ resp'.code = "TOKEN_EXPIRED")) ]_vars

\* C20: the cache write of a login leaves that login's refresh token in the
\* user's entry, so after two logins of one user the entry holds the token
\* written last; a refresh request arriving with a token written earlier for
\* the user and different from the one written last answers 401 TOKEN_EXPIRED.
C20_LastWriterWins ==
    [][ /\ \A p \in Procs :
             (inflight[p].op = "login" /\ login_user_store(p)) =>
                /\ cache'[inflight[p].user_id].val = inflight[p].refresh
                /\ resp'.status = 200 /\ resp'.out.refresh_token = inflight[p].refresh
                /\ lastRefresh'[inflight[p].user_id] = inflight[p].refresh
        /\ \A u \in UserIds : cache[u] # NoEntry => cache[u].val = lastRefresh[u]
        /\ resp'.op = "refresh" =>
             LET t == resp'.req.refresh_token IN
             (t \in olderRefresh[t.sub] /\ t # lastRefresh[t.sub]
                 /\ \E p \in Procs : inflight[p] = Idle /\ refresh_access_token_read(p, t)) =>
                (resp'.status = 401 /\ resp'.code = "TOKEN_EXPIRED") ]_vars

\* C20 witness: two logins of one user overlapped, the token issued later was
\* written first, and its refresh was refused while the token issued earlier
\* is the cached one.
C20_Witness ==
    /\ resp.op = "refresh" /\ resp.status = 401 /\ resp.code = "TOKEN_EXPIRED"
    /\ LET t == resp.req.refresh_token IN
       /\ t \in olderRefresh[t.sub]
       /\ cache[t.sub] # NoEntry
       /\ cache[t.sub].val.exp < t.exp
       /\ t.exp >= clock

\* ---- list requests
ListOps ==
    {"list_books", "search_books", "filter_price", "list_comments", "list_ratings",
     "list_users_admin", "user_comments", "user_ratings"}
CatalogOps == {"list_books", "search_books"}

\* The listing query of the request answered by r did not reach the database.
NotQueried(r) == "queried" \in DOMAIN r.out => ~r.out.queried

\* C13: every list endpoint that takes page and size (books list, book
\* search, price filter, comments list, ratings list, admin users list, admin
\* user comments, admin user ratings) answers a request with page < 1 or
\* size < 1 with a client error (4xx), and its listing query never reaches
\* the database.
C13_RejectedBeforeQuery ==
    (resp.op \in ListOps /\ (resp.req.page < 1 \/ resp.req.size < 1)) =>
        (resp.status \in 400..499 /\ NotQueried(resp))

Ceil(total, size) ==
    CHOOSE k \in 0..total : k * size >= total /\ \A j \in 0..(k - 1) : j * size < total

\* full lists ids in the direction asked for.
Monotone(full, direction) ==
    \A i, j \in DOMAIN full :
        i < j => IF direction = "DESC" THEN full[i] > full[j] ELSE full[i] < full[j]

\* rows are rows (page-1)*size .. page*size-1 of full, counted from zero.
IsPage(rows, full, page, size) ==
    /\ Len(rows) <= size
    /\ Len(rows) = Cardinality({i \in DOMAIN full : (page - 1) * size < i /\ i <= page * size})
    /\ \A k \in DOMAIN rows : rows[k] = full[(page - 1) * size + k]

\* The body carries content, totalElements and totalPages == ceil(total / size),
\* and content is the page of the selected ids in some order of kind direction
\* ("ANY": whatever order the database chose).
PagedBody(out, ids, direction, page, size) ==
    /\ DOMAIN out = {"queried", "content", "totalElements", "totalPages"}
    /\ out.totalElements = Cardinality(ids)
    /\ out.totalPages = Ceil(Cardinality(ids), size)
    /\ (Cardinality(ids) = 0 => out.totalPages = 0)
    /\ \E full \in Unordered(ids) :
          /\ direction # "ANY" => Monotone(full, direction)
          /\ IsPage(out.content, full, page, size)

\* The body carries items and total, and no totalPages.
ItemsBody(out, ids, direction, page, size) ==
    /\ DOMAIN out = {"queried", "items", "total"}
    /\ out.total = Cardinality(ids)
    /\ \E full \in Unordered(ids) :
          /\ Monotone(full, direction)
          /\ IsPage(out.items, full, page, size)

ValidPaging(op, page, size) ==
    page >= 1 /\ size >= 1 /\ (op \in CatalogOps \cup {"filter_price"} => size <= 50)

C16_AsStated ==
    [][ resp'.op = "delete_comment" =>
          \A c \in accessIssued, cm \in comments :
             (cm.id = resp'.req.comment_id /\ AuthCase(c)[1] = 200
                /\ remove_comment(c, cm.id)) =>
                IF cm.user_id = c.sub \/ IsAdminCaller(c)
                THEN resp'.status = 200 /\ comments' = comments \ {cm}
                ELSE resp'.code = "FORBIDDEN" /\ comments' = comments ]_vars

\* C16: only its author deletes a comment.  delete_comment on an existing
\* comment answers 200 and removes the row when the caller is the author, and
\* answers 403 FORBIDDEN and removes nothing for every other caller, a caller
\* of role ADMIN included.
C16_DeleteByAuthorOnly ==
    [][ resp'.op = "delete_comment" =>
          \A c \in accessIssued, cm \in comments :
             (cm.id = resp'.req.comment_id /\ AuthCase(c)[1] = 200
                /\ remove_comment(c, cm.id)) =>
                /\ cm.user_id = c.sub =>
                      (resp'.status = 200 /\ comments' = comments \ {cm})
                /\ cm.user_id # c.sub =>
                      (resp'.status = 403 /\ resp'.code = "FORBIDDEN"
                         /\ comments' = comments)
                /\ (IsAdminCaller(c) /\ cm.user_id # c.sub) => cm \in comments' ]_vars

\* C16 witness: the delete of a comment written by a USER was refused with
\* 403 while every other account is an ADMIN.
C16_Witness ==
    /\ resp.op = "delete_comment" /\ resp.status = 403
    /\ \E cm \in comments :
          /\ cm.id = resp.req.comment_id
          /\ \E u \in users : u.id = cm.user_id /\ u.role = "USER"
          /\ \A u \in users : u.id # cm.user_id => u.role = "ADMIN"

\* C17: every stored comment has content that is not empty once the
\* whitespace around it is removed; create_comment and update_comment answer
\* a content that is empty or all whitespace with VALIDATION_FAILED and write
\* nothing.
C17_ContentNonBlank ==
    /\ [](\A cm \in comments : NonBlank(cm.content))
    /\ [][ /\ resp'.op = "create_comment" =>
               \A c \in accessIssued, b \in books, t \in Texts :
                  (~NonBlank(t) /\ AuthCase(c)[1] = 200 /\ add_comment(c, b, t)) =>
                     (resp'.code = "VALIDATION_FAILED" /\ comments' = comments)
          /\ resp'.op = "update_comment" =>
               \A c \in accessIssued, cm \in comments, t \in Texts :
                  (~NonBlank(t) /\ cm.user_id = c.sub /\ AuthCase(c)[1] = 200
                     /\ edit_comment(c, cm.id, {t})) =>
                     (resp'.code = "VALIDATION_FAILED" /\ comments' = comments) ]_vars

\* users' is users with the field of the one row of id user_id set to value.
OnlyFieldSet(user_id, field, value) ==
    /\ Cardinality(users') = Cardinality(users)
    /\ \A u \in users :
          IF u.id = user_id
          THEN \E v \in users' :
                  /\ v[field] = value
                  /\ \A f \in DOMAIN u \ {field} : v[f] = u[f]
          ELSE u \in users'

\* C18: in every state reached through registration and the admin status and
\* role endpoints, every user's role is USER or ADMIN and status is ACTIVE or
\* INACTIVE.  An admin's request with a value outside the enumeration is
\* answered 400 BAD_REQUEST and writes nothing, with a valid value for an id
\* without a row 404 USER_NOT_FOUND, and with a valid value for an existing
\* user 200, setting that field of that user and nothing else.
C18_ClosedEnums ==
    /\ [](\A u \in users : u.role \in {"USER", "ADMIN"} /\ u.status \in {"ACTIVE", "INACTIVE"})
    /\ [][ /\ resp'.op = "change_user_status" =>
               LET id == resp'.req.user_id
                   value == resp'.req.status
               IN \A c \in accessIssued :
                    (IsAdminCaller(c) /\ change_user_status(c, id, value)) =>
                       IF value \notin {"ACTIVE", "INACTIVE"}
                       THEN resp'.status = 400 /\ resp'.code = "BAD_REQUEST" /\ users' = users
                       ELSE IF \A u \in users : u.id # id
                       THEN resp'.status = 404 /\ resp'.code = "USER_NOT_FOUND"
                            /\ users' = users
                       ELSE resp'.status = 200 /\ OnlyFieldSet(id, "status", value)
          /\ resp'.op = "change_user_role" =>
               LET id == resp'.req.user_id
                   value == resp'.req.role
               IN \A c \in accessIssued :
                    (IsAdminCaller(c) /\ change_user_role(c, id, value)) =>
                       IF value \notin {"USER", "ADMIN"}
                       THEN resp'.status = 400 /\ resp'.code = "BAD_REQUEST" /\ users' = users
                       ELSE IF \A u \in users : u.id # id
                       THEN resp'.status = 404 /\ resp'.code = "USER_NOT_FOUND"
                            /\ users' = users
                       ELSE resp'.status = 200 /\ OnlyFieldSet(id, "role", value) ]_vars

\* C18 witness: a registered user was made ADMIN by the role endpoint.
C18_Witness ==
    /\ resp.op = "change_user_role" /\ resp.status = 200
    /\ \E u \in users \ SeedUsers :
          u.id = resp.req.user_id /\ u.id >= 3 /\ u.role = "ADMIN" /\ resp.req.role = "ADMIN"

\* C21: when two creates for the same key have both passed the pre-check,
\* the one that commits second adds no row and is answered with the conflict
\* error of the entity, for ratings 409 STATE_CONFLICT, as if the requests
\* had run one after the other.
C21_RaceLoserConflict ==
    [][ \A p \in Busy("create_rating") :
          (Stored(inflight[p].user_id, inflight[p].book_id) # {}
             /\ create_rating_commit(p)) =>
             (resp'.status = 409 /\ resp'.code = "STATE_CONFLICT" /\ ratings' = ratings) ]_vars

\* The rows of the four tables.
Rows == <<users, books, comments, ratings>>

C23_FaultIsServerError ==
    [][ resp'.op = "register_user" =>
          /\ (resp'.req.db_fault /\ ~EmailConflict(resp'.req.user_data.email)) =>
                (resp'.status = 500
                   /\ resp'.code \in {"INTERNAL_SERVER_ERROR", "DATABASE_ERROR"})
          /\ (resp'.status = 409 /\ resp'.code = "DUPLICATE_RESOURCE") =>
                EmailConflict(resp'.req.user_data.email) ]_vars

\* A field of the book as the API shows it, and as a request body gives it.
Shown(book, f) == serialize_book(book)[f]
Given(data, f) ==
    IF f \in {"authors", "categories"}
    THEN IF data.values[f] = None THEN <<>> ELSE Val(data.values[f])
    ELSE data.values[f]

\* C24: update_book on an existing book leaves the stored book with every
\* field the payload names (title, price, publisher, summary, publicationDate,
\* authors, categories) at the supplied value and every other field, id and
\* isbn included, as it was; on a missing id it answers RESOURCE_NOT_FOUND
\* and changes nothing. (Requests the database refuses are left aside.)
C24_UpdateSetsNamedFields ==
    [][ (resp'.op = "update_book" /\ resp'.status < 500) =>
          LET data == resp'.req.data
              before == {b \in books : b.id = resp'.req.book_id}
              after == {b \in books' : b.id = resp'.req.book_id}
          IN IF before = {}
             THEN resp'.code = "RESOURCE_NOT_FOUND" /\ books' = books
             ELSE \A b \in before : \E a \in after :
                    /\ a.isbn = b.isbn
                    /\ \A f \in BookUpdateFields :
                          Shown(a, f) = IF f \in data.fields_set THEN Given(data, f)
                                        ELSE Shown(b, f) ]_vars

\* The list requests that take a sort parameter.
SortedListOps == {"list_books", "search_books", "filter_price", "list_comments",
                  "list_ratings", "list_users_admin"}

\* The answer to a bad sort parameter.
ClientInputError ==
    /\ resp'.status \in {400, 422}
    /\ resp'.code \in {"INVALID_QUERY_PARAM", "VALIDATION_FAILED"}

\* C25: every list request whose sort value has no comma or names a field
\* the entity does not have is answered with status 400 or 422 and code
\* INVALID_QUERY_PARAM or VALIDATION_FAILED, never with a 500.
C25_BadSortIsClientError ==
    [][ resp'.op \in SortedListOps =>
          LET page == resp'.req.page
              size == resp'.req.size
          IN \A sort \in {s \in Sorts : Len(s) # 2 \/ s[1] \notin SortColumns} :
               /\ list_books(page, size, sort) => ClientInputError
               /\ search_books_api(page, size, sort) => ClientInputError
               /\ filter_books_by_price(page, size, sort) => ClientInputError
               /\ \A b \in BookIds : list_ratings(b, page, size, sort) => ClientInputError
               /\ \A b \in BookIds, db_strict \in BOOLEAN, keyword \in Keywords :
                     list_comments(b, page, size, sort, keyword, db_strict) =>
                        ClientInputError
               /\ \A c \in Callers :
                     (list_users_admin(c, page, size, sort)
                        /\ resp'.status \notin {401, 403, 404}) => ClientInputError ]_vars

C27_RevokedStaysOut ==
    [][ (resp'.op \in {"login", "refresh"} /\ resp'.status = 200) =>
          \E u \in users :
             /\ u.id = resp'.out.access_token.sub
             /\ u.status = "ACTIVE"
             /\ resp'.out.access_token.role = u.role
             /\ resp'.out.refresh_token.role = u.role ]_vars

\* The rows of users other than the one with this id.
Others(table, id) == {u \in table : u.id # id}

\* C28: while only callers of role USER make requests (register, login,
\* refresh, logout, update or delete of the own account, comments, ratings,
\* and attempts on the admin endpoints), no user's role or status changes,
\* a new row has role USER and status ACTIVE, and an update or deletion of
\* the own account changes no row but the caller's.
C28_NoSelfEscalation ==
    [][ /\ \A u \in users, v \in users' :
              v.id = u.id => (v.role = u.role /\ v.status = u.status)
        /\ \A v \in users' :
              (\A u \in users : u.id # v.id) => (v.role = "USER" /\ v.status = "ACTIVE")
        /\ resp'.op = "update_me" =>
              \A c \in accessIssued :
                 update_me(c, resp'.req.name) => Others(users', c.sub) = Others(users, c.sub)
        /\ resp'.op = "delete_me" =>
              \A c \in accessIssued :
                 delete_me(c) => Others(users', c.sub) = Others(users, c.sub) ]_vars

\* C28 witness: a user who registered and signed in has renamed the own
\* account, and the seeded administrator is still the only one.
C28_Witness ==
    /\ resp.op = "update_me" /\ resp.status = 200 /\ resp.out.id = 3
    /\ resp.out.role = "USER" /\ resp.out.status = "ACTIVE"
    /\ \A u \in users : u.role = "ADMIN" <=> u.id = 1

\* C29: a bearer request presenting a token that was issued as a refresh
\* token is answered 401 UNAUTHORIZED, and a refresh request presenting a
\* token that was issued as an access token never succeeds.
C29_NotInterchangeable ==
    [][ /\ resp'.op = "get_me" =>
              \A t \in RefreshIssued \ accessIssued :
                 get_me(t) => (resp'.status = 401 /\ resp'.code = "UNAUTHORIZED")
        /\ resp'.op = "refresh" =>
              \A t \in accessIssued \ RefreshIssued :
                 refresh_access_token(t) => resp'.status # 200 ]_vars

\* C30: the counter of a client never exists without an expiry; a request is
\* passed on to the handlers only with a count of 1..60 of its window, and a
\* request counted beyond 60 is rejected with 429.
C30_RateLimit ==
    /\ \A ip \in IPs : Counted(ip) => cache[ip].at # Never
    /\ resp.op = "dispatch" =>
          IF resp.req.count \in 1..RateLimit THEN resp.status = 200 ELSE resp.status = 429

====
